---- MODULE Spec2Model ----
(***************************************************************************)
(* A model of the Selenium configuration language and keymap dispatch      *)
(* engine: the INI-style parser of Framework/Assets/Configurations.js, the *)
(* asynchronous keymap load of Framework/Input/Keyboard.js and the key     *)
(* event handlers that dispatch against the live keymap.                   *)
(*                                                                         *)
(* A JavaScript string is a sequence of one-character strings.  A          *)
(* JavaScript Map is a sequence of records [k, v] in insertion order with  *)
(* unique keys.  A config entry, the array [value, Map] of the source, is  *)
(* the pair <<value, sub-key map>>; JavaScript index i is TLA+ index i+1.  *)
(***************************************************************************)
EXTENDS Integers, Sequences, FiniteSets, TLC

VARIABLES
    Fatality,   \* Selenium_Data.Fatality
    Callbacks,  \* PressCallbacks / HoldCallbacks / ReleaseCallbacks
    Map,        \* Selenium_Input_Keyboard.Map, the live keymap
    loads,      \* the LoadMap calls suspended at an await, oldest first
    settled,    \* how the LoadMap call that settled last ended: "null"
                \* (returned without a file), "rejected" or "installed"
    ev,         \* the key event delivered last
    calls,      \* the callback invocations made by that event's handler
    fault,      \* the exception that handler let escape, or "none"
    build,      \* which revision of the keyboard handlers is running
    type,       \* argument of Selenium_Assets_Configurations.Load
    contents,   \* the text of the file that Load retrieves
    outcome,    \* how the promise returned by Load settled
    again,      \* how a second Load of the same file settled
    Data,       \* Selenium_Data: the game data
    start,      \* where Selenium.Start is: "load", "entered", "rejected"
    newest,     \* history: the file of the LoadMap call issued last, and
                \* how that call ended ("pending" until it does)
    listeners,  \* the event listener list of window, in the order added
    LogBuffer,  \* Selenium_Utilities.LogBuffer, the message of each entry
    emitted,    \* history: the messages passed to the logging functions
    last,       \* the logging function called last and whether it threw
    intervals,  \* the four movement interval variables of Input/Camera.js
    timers,     \* the intervals of the host that are set and not cleared
    LoadedTextures, \* Selenium_Assets_Textures.Loaded
    created,    \* the textures GL.createTexture has made, by name asked
    stored,     \* history: the textures ever set in LoadedTextures
    texLoads    \* the Textures.Load calls suspended at their await

\* The variables of the keyboard and of the configurations, of the log, of
\* the camera and of the textures.
keyboardVars == <<Callbacks, Map, loads, settled, ev, calls, fault, build,
                  type, contents, outcome, again, Data, start, newest,
                  listeners>>
logVars == <<LogBuffer, emitted, last>>
cameraVars == <<intervals, timers>>
textureVars == <<LoadedTextures, created, stored, texLoads>>

vars == <<Fatality, keyboardVars, logVars, cameraVars, textureVars>>

(***************************************************************************)
(* JavaScript built-ins used by the parser.                                *)
(***************************************************************************)

RECURSIVE IndexFrom(_, _, _)
IndexFrom(s, c, i) ==
    IF i > Len(s) THEN -1
    ELSE IF s[i] = c THEN i - 1
    ELSE IndexFrom(s, c, i + 1)

\* String.prototype.indexOf: 0-based position of the first c, or -1.
IndexOf(s, c) == IndexFrom(s, c, 1)

\* String.prototype.includes.
Includes(s, c) == IndexOf(s, c) # -1

Clamp(n, len) == IF n < 0 THEN 0 ELSE IF n > len THEN len ELSE n

\* String.prototype.substring(a, b): both ends are clamped to [0, length]
\* and swapped when a > b.
Substring(s, a, b) ==
    LET ca == Clamp(a, Len(s))
        cb == Clamp(b, Len(s))
        lo == IF ca <= cb THEN ca ELSE cb
        hi == IF ca <= cb THEN cb ELSE ca
    IN  SubSeq(s, lo + 1, hi)

\* String.prototype.substring(a): to the end of the string.
SubstringFrom(s, a) == Substring(s, a, Len(s))

RECURSIVE Split(_, _)
\* String.prototype.split on a one-character separator; never empty.
Split(s, sep) ==
    LET i == IndexOf(s, sep)
    IN  IF i = -1 THEN <<s>>
        ELSE <<SubSeq(s, 1, i)>> \o Split(SubSeq(s, i + 2, Len(s)), sep)

RECURSIVE Join(_, _)
\* Array.prototype.join.
Join(ls, sep) ==
    IF ls = <<>> THEN <<>>
    ELSE IF Len(ls) = 1 THEN ls[1]
    ELSE ls[1] \o sep \o Join(Tail(ls), sep)

RECURSIVE RunEnd(_, _)
RunEnd(s, i) == IF i <= Len(s) /\ s[i] = " " THEN RunEnd(s, i + 1) ELSE i

RECURSIVE ReplaceSpaceFrom(_, _)
\* The expression /^ +| +$| +(?= )/g on one line, from position i on.
ReplaceSpaceFrom(s, i) ==
    IF i > Len(s) THEN <<>>
    ELSE IF s[i] # " " THEN <<s[i]>> \o ReplaceSpaceFrom(s, i + 1)
    ELSE LET j == RunEnd(s, i)
         IN  IF i = 1 \/ j > Len(s) THEN ReplaceSpaceFrom(s, j)
             ELSE <<" ">> \o ReplaceSpaceFrom(s, j)

\* s.replaceAll(/^ +| +$| +(?= )/gm, ""): in every line (the m flag) a run
\* of spaces at the start or at the end is removed and any other run
\* shrinks to one space.  Tabs are not spaces to this expression.
ReplaceSpace(s) ==
    LET ls == Split(s, "\n")
    IN  Join([n \in DOMAIN ls |-> ReplaceSpaceFrom(ls[n], 1)], <<"\n">>)

\* KeepLine with a comment marker looked for at the start of the line only.
KeepLine_MarkerAtStart(v) == v # <<>> /\ v[1] # "#" /\ v[1] # ";"

\* The filter of ParseConfig: a line is kept unless it is empty or has a
\* comment marker anywhere in it.
KeepLine(v) == v # <<>> /\ ~Includes(v, "#") /\ ~Includes(v, ";")

RECURSIVE FilterLines(_)
FilterLines(seq) ==
    IF seq = <<>> THEN <<>>
    ELSE (IF KeepLine(Head(seq)) THEN <<Head(seq)>> ELSE <<>>)
            \o FilterLines(Tail(seq))

MapHas(m, k) == \E i \in 1..Len(m) : m[i].k = k
MapIndex(m, k) == CHOOSE i \in 1..Len(m) : m[i].k = k
\* Map.prototype.get, for a key the map has.
MapGet(m, k) == m[MapIndex(m, k)].v
\* Map.prototype.set: an existing key keeps its position.
MapSet(m, k, v) ==
    IF MapHas(m, k) THEN [m EXCEPT ![MapIndex(m, k)].v = v]
    ELSE Append(m, [k |-> k, v |-> v])
MapKeys(m) == {m[i].k : i \in 1..Len(m)}

(***************************************************************************)
(* String literals of the source.                                          *)
(***************************************************************************)
sSelenium == <<"S", "e", "l", "e", "n", "i", "u", "m">>
sGame == <<"G", "a", "m", "e">>
sPress == <<"P", "r", "e", "s", "s">>
sHold == <<"H", "o", "l", "d">>
sRelease == <<"R", "e", "l", "e", "a", "s", "e">>
sMode == <<"m", "o", "d", "e">>
sFatalityLevel ==
    <<"f", "a", "t", "a", "l", "i", "t", "y", "_", "l", "e", "v", "e", "l">>
sTitle == <<"t", "i", "t", "l", "e">>
sShort == <<"s", "h", "o", "r", "t">>
sAuthor == <<"a", "u", "t", "h", "o", "r">>
sDescription == <<"d", "e", "s", "c", "r", "i", "p", "t", "i", "o", "n">>
sKeywords == <<"k", "e", "y", "w", "o", "r", "d", "s">>
sLicense == <<"l", "i", "c", "e", "n", "s", "e">>
sTolerant == <<"t", "o", "l", "e", "r", "a", "n", "t">>
sShift == <<"s", "h", "i", "f", "t">>
sAlt == <<"a", "l", "t">>
sControl == <<"c", "o", "n", "t", "r", "o", "l">>
sMeta == <<"m", "e", "t", "a">>
sDebug == <<"D", "e", "b", "u", "g">>
sReleaseMode == sRelease
sAll == <<"A", "l", "l">>
sErrors == <<"E", "r", "r", "o", "r", "s">>
sPanics == <<"P", "a", "n", "i", "c", "s">>

(***************************************************************************)
(* Values of the parsed tree.                                              *)
(***************************************************************************)
Null == [t |-> "null"]
Thrown == [t |-> "thrown"]
IntValue(n) == [t |-> "int", n |-> n]
StrValue(s) == [t |-> "str", s |-> s]
ListValue(l) == [t |-> "list", l |-> l]
\* requested_function.bind(window, function_arguments): the registered
\* function and the one argument it will be called with, which is the
\* array of argument strings or undefined.
Bound(f, hasArgs, args) ==
    [t |-> "fn", f |-> f, hasArgs |-> hasArgs, args |-> args]
MapValue(m) == [t |-> "map", m |-> m]

(***************************************************************************)
(* Context validation.                                                     *)
(***************************************************************************)
CheckSectionName(ty, name) ==
    IF ty = "global" THEN name = sSelenium \/ name = sGame
    ELSE name = sPress \/ name = sHold \/ name = sRelease

CheckKeyName(ty, section, name) ==
    IF ty = "global"
    THEN IF section = sSelenium
         THEN name = sMode \/ name = sFatalityLevel
         ELSE name \in {sTitle, sShort, sAuthor, sDescription, sKeywords,
                        sLicense}
    ELSE TRUE

\* CheckSubkeyName with every sub-key name accepted in a keymap.
CheckSubkeyName_AnyInKeymap(ty, section, name, subname) ==
    IF ty = "global"
    THEN IF section = sSelenium THEN FALSE
         ELSE IF subname = sShort THEN name = sTitle
         ELSE FALSE
    ELSE TRUE

CheckSubkeyName(ty, section, name, subname) ==
    IF ty = "global"
    THEN IF section = sSelenium THEN FALSE
         ELSE IF subname = sShort THEN name = sTitle
         ELSE FALSE
    ELSE subname = sTolerant

(***************************************************************************)
(* Value interpretation.                                                   *)
(***************************************************************************)
Phases == {sPress, sHold, sRelease}

\* The registry ParseValue consults for a section, as a Map from name to
\* function; a section that is no phase has none.
RegistryOf(cb, section) ==
    IF section \in Phases THEN cb[section] ELSE <<>>

RECURSIVE TrimEach(_)
TrimEach(l) ==
    IF l = <<>> THEN <<>>
    ELSE <<ReplaceSpace(Head(l))>> \o TrimEach(Tail(l))

\* ParseKeymapValue with the text between the parentheses taken as one
\* argument.
ParseKeymapValue_NoCommaSplit(section, value, cb) ==
    LET argument_start == IndexOf(value, "(")
        function_name ==
            IF argument_start = -1 THEN value
            ELSE Substring(value, 0, argument_start)
        function_arguments ==
            IF argument_start = -1 THEN <<>>
            ELSE <<Substring(value, argument_start + 1,
                             IndexOf(value, ")"))>>
        registry == RegistryOf(cb, section)
    IN  IF ~MapHas(registry, function_name) THEN Null
        ELSE Bound(MapGet(registry, function_name), argument_start # -1,
                   function_arguments)

\* ParseValue for a keymap: the name before the first "(", the arguments
\* between it and the first ")", and the lookup in the section's registry.
ParseKeymapValue(section, value, cb) ==
    LET argument_start == IndexOf(value, "(")
        function_name ==
            IF argument_start = -1 THEN value
            ELSE Substring(value, 0, argument_start)
        function_arguments ==
            IF argument_start = -1 THEN <<>>
            ELSE Split(Substring(value, argument_start + 1,
                                 IndexOf(value, ")")), ",")
        registry == RegistryOf(cb, section)
    IN  IF ~MapHas(registry, function_name) THEN Null
        ELSE Bound(MapGet(registry, function_name), argument_start # -1,
                   function_arguments)

\* ParseValue with Release decoded as Debug is.
ParseValue_ReleaseAsDebug(ty, section, key, value, cb) ==
    IF ty = "global"
    THEN IF section = sSelenium /\ key = sMode /\ value = sDebug
            THEN IntValue(0)
         ELSE IF section = sSelenium /\ key = sMode /\ value = sReleaseMode
            THEN IntValue(0)
         ELSE IF section = sSelenium /\ key # sMode /\ value = sAll
            THEN IntValue(0)
         ELSE IF section = sSelenium /\ key # sMode /\ value = sErrors
            THEN IntValue(1)
         ELSE IF section = sSelenium /\ key # sMode /\ value = sPanics
            THEN IntValue(2)
         ELSE IF section = sSelenium /\ key # sMode
            THEN Thrown
         ELSE IF key = sKeywords
            THEN ListValue(TrimEach(Split(value, ",")))
         ELSE StrValue(value)
    ELSE ParseKeymapValue(section, value, cb)

\* ParseValue: the typed value, Null when a keymap callback is not
\* registered, Thrown when it panics.
ParseValue(ty, section, key, value, cb) ==
    IF ty = "global"
    THEN IF section = sSelenium /\ key = sMode /\ value = sDebug
            THEN IntValue(0)
         ELSE IF section = sSelenium /\ key = sMode /\ value = sReleaseMode
            THEN IntValue(1)
         ELSE IF section = sSelenium /\ key # sMode /\ value = sAll
            THEN IntValue(0)
         ELSE IF section = sSelenium /\ key # sMode /\ value = sErrors
            THEN IntValue(1)
         ELSE IF section = sSelenium /\ key # sMode /\ value = sPanics
            THEN IntValue(2)
         ELSE IF section = sSelenium /\ key # sMode
            THEN Thrown
         ELSE IF key = sKeywords
            THEN ListValue(TrimEach(Split(value, ",")))
         ELSE StrValue(value)
    ELSE ParseKeymapValue(section, value, cb)

(***************************************************************************)
(* Fatality of the logging calls.                                          *)
(***************************************************************************)
\* ErrorThrows with the threshold of Warning.
ErrorThrows_OnlyAtAll(fat) == fat = 0

\* Selenium_Utilities.Error: whether it throws.
ErrorThrows(fat) == fat < 2

\* WarningThrows with the threshold of Error.
WarningThrows_BelowPanics(fat) == fat < 2

\* Selenium_Utilities.Warning: whether it throws.
WarningThrows(fat) == fat = 0

(***************************************************************************)
(* The grammar parser.                                                     *)
(***************************************************************************)
\* The lines ParseConfig iterates over.
Lines(text) == FilterLines(Split(ReplaceSpace(text), "\n"))

\* The locals of ParseConfig; thrown is "none" while the loop runs and the
\* kind of the exception once one has been thrown.
ParseStart ==
    [parsed_contents |-> <<>>, section_name |-> <<>>, key |-> <<>>,
     section |-> <<>>, thrown |-> "none"]

Throw(st, kind) == [st EXCEPT !.thrown = kind]

\* ParseHeader with the entries of the section kept when a header opens
\* the next one.
ParseHeader_KeepsSection(ty, st, line, fat) ==
    LET flushed ==
            IF st.section_name # <<>>
            THEN MapSet(st.parsed_contents, st.section_name, st.section)
            ELSE st.parsed_contents
        section_name_temp == Substring(line, 1, Len(line) - 1)
    IN  IF ~CheckSectionName(ty, section_name_temp)
        THEN IF ty = "global" THEN Throw(st, "Panic")
             ELSE IF WarningThrows(fat) THEN Throw(st, "Warning")
             ELSE [st EXCEPT !.parsed_contents = flushed]
        ELSE [st EXCEPT !.parsed_contents = flushed,
                        !.section_name = section_name_temp]

\* The section header branch of the loop.
ParseHeader(ty, st, line, fat) ==
    LET flushed ==
            IF st.section_name # <<>>
            THEN MapSet(st.parsed_contents, st.section_name, st.section)
            ELSE st.parsed_contents
        section_name_temp == Substring(line, 1, Len(line) - 1)
    IN  IF ~CheckSectionName(ty, section_name_temp)
        THEN IF ty = "global" THEN Throw(st, "Panic")
             ELSE IF WarningThrows(fat) THEN Throw(st, "Warning")
             ELSE [st EXCEPT !.parsed_contents = flushed]
        ELSE [st EXCEPT !.parsed_contents = flushed,
                        !.section_name = section_name_temp,
                        !.section = <<>>]

\* The key line branch of the loop.
ParseKey(ty, st, line, cb, fat) ==
    LET key == Substring(line, 0, IndexOf(line, "="))
        value_string == SubstringFrom(line, IndexOf(line, "=") + 1)
        value == ParseValue(ty, st.section_name, key, value_string, cb)
    IN  IF ~CheckKeyName(ty, st.section_name, key) THEN Throw(st, "Panic")
        ELSE IF value = Thrown THEN Throw(st, "Panic")
        ELSE IF ty = "keymap" /\ value = Null
        THEN IF ErrorThrows(fat) THEN Throw([st EXCEPT !.key = key], "Error")
             ELSE [st EXCEPT !.key = key]
        ELSE [st EXCEPT !.key = key,
                        !.section = MapSet(st.section, key,
                                           <<value, MapValue(<<>>)>>)]

\* ParseSubkey with the sub-key name left unchecked.
ParseSubkey_Unchecked(ty, st, line) ==
    LET subkey == Substring(line, 1, IndexOf(line, "="))
        value_string == SubstringFrom(line, IndexOf(line, "=") + 1)
    IN  IF ~MapHas(st.section, st.key) THEN Throw(st, "TypeError")
        ELSE LET entry == MapGet(st.section, st.key)
             IN  [st EXCEPT !.section =
                    MapSet(st.section, st.key,
                           <<entry[1],
                             MapValue(MapSet(entry[2].m, subkey,
                                             value_string))>>)]

\* The sub-key line branch of the loop.
ParseSubkey(ty, st, line) ==
    LET subkey == Substring(line, 1, IndexOf(line, "="))
        value_string == SubstringFrom(line, IndexOf(line, "=") + 1)
    IN  IF ~CheckSubkeyName(ty, st.section_name, st.key, subkey)
        THEN Throw(st, "Panic")
        ELSE IF ~MapHas(st.section, st.key) THEN Throw(st, "TypeError")
        ELSE LET entry == MapGet(st.section, st.key)
             IN  [st EXCEPT !.section =
                    MapSet(st.section, st.key,
                           <<entry[1],
                             MapValue(MapSet(entry[2].m, subkey,
                                             value_string))>>)]

\* One iteration of the loop of ParseConfig.
ParseLine(ty, st, line, cb, fat) ==
    IF st.thrown # "none" THEN st
    ELSE IF line[1] = "[" THEN ParseHeader(ty, st, line, fat)
    ELSE IF line[1] # "\t" THEN ParseKey(ty, st, line, cb, fat)
    ELSE ParseSubkey(ty, st, line)

RECURSIVE ParseLines(_, _, _, _, _)
ParseLines(ty, st, lines, cb, fat) ==
    IF lines = <<>> THEN st
    ELSE ParseLines(ty, ParseLine(ty, st, Head(lines), cb, fat),
                    Tail(lines), cb, fat)

\* RequiredPresent with the test of mode left out.
RequiredPresent_NoMode(parsed_contents) ==
    /\ MapHas(parsed_contents, sSelenium)
    /\ MapHas(parsed_contents, sGame)
    /\ MapHas(MapGet(parsed_contents, sGame), sTitle)
    /\ MapHas(MapGet(parsed_contents, sGame), sAuthor)
    /\ MapHas(MapGet(parsed_contents, sGame), sLicense)

\* The check of the required sections and keys that ends a global parse.
RequiredPresent(parsed_contents) ==
    /\ MapHas(parsed_contents, sSelenium)
    /\ MapHas(parsed_contents, sGame)
    /\ MapHas(MapGet(parsed_contents, sSelenium), sMode)
    /\ MapHas(MapGet(parsed_contents, sGame), sTitle)
    /\ MapHas(MapGet(parsed_contents, sGame), sAuthor)
    /\ MapHas(MapGet(parsed_contents, sGame), sLicense)

\* ParseConfig: [thrown |-> "none", contents |-> the tree] when it returns
\* and [thrown |-> kind, contents |-> <<>>] when it throws.
ParseConfig(ty, text, cb, fat) ==
    LET st == ParseLines(ty, ParseStart, Lines(text), cb, fat)
        parsed_contents ==
            IF st.section_name # <<>>
            THEN MapSet(st.parsed_contents, st.section_name, st.section)
            ELSE st.parsed_contents
    IN  IF st.thrown # "none"
        THEN [thrown |-> st.thrown, contents |-> <<>>]
        ELSE IF ty = "global" /\ ~RequiredPresent(parsed_contents)
        THEN [thrown |-> "Panic", contents |-> <<>>]
        ELSE [thrown |-> "none", contents |-> parsed_contents]

(***************************************************************************)
(* The key event handlers.                                                 *)
(***************************************************************************)
\* A KeyboardEvent: type is "keydown" or "keyup".
KeyEvent(ty, code, repeat, shift, alt, ctrl, meta) ==
    [type |-> ty, code |-> code, repeat |-> repeat, shiftKey |-> shift,
     altKey |-> alt, ctrlKey |-> ctrl, metaKey |-> meta]

ConstructKey(e) == <<e.code, e.shiftKey, e.altKey, e.ctrlKey, e.metaKey>>

\* NoCall with an exception let escape.
NoCall_Faults == [calls |-> <<>>, fault |-> "TypeError"]

\* What a handler did: the bound functions it called, in order, and the
\* exception it let escape ("none" when it returned).
NoCall == [calls |-> <<>>, fault |-> "none"]

\* The registered functions that throw when they are called, and what
\* they throw.
Throwing == {"pressT", "holdT", "releaseT"}
CallbackFault == "CallbackFault"

\* Invoke with the call wrapped in a try statement whose catch is empty.
Invoke_SwallowsFault(x) ==
    IF x.t = "fn" THEN [calls |-> <<x>>, fault |-> "none"]
    ELSE [calls |-> <<>>, fault |-> "TypeError"]

\* The call expression x(): x is called when it is a bound function, and
\* what it throws is thrown by the expression; the call is a TypeError
\* when x is anything else.
Invoke(x) ==
    IF x.t = "fn"
    THEN [calls |-> <<x>>,
          fault |-> IF x.f \in Throwing THEN CallbackFault ELSE "none"]
    ELSE [calls |-> <<>>, fault |-> "TypeError"]

\* Tolerant with the tolerant branch of the handlers never taken.
Tolerant_Never(callback) == FALSE

\* callback[1].get("tolerant") as a condition: undefined and the empty
\* string are falsy, every other string is truthy.
Tolerant(callback) ==
    /\ MapHas(callback[2].m, sTolerant)
    /\ MapGet(callback[2].m, sTolerant) # <<>>

\* ModifierVoids with the test of the shift key left out.
ModifierVoids_NoShift(callback, key) ==
    \/ ~MapHas(callback[2].m, sAlt) /\ key[3]
    \/ ~MapHas(callback[2].m, sControl) /\ key[4]
    \/ ~MapHas(callback[2].m, sMeta) /\ key[5]

\* The four modifier tests: a modifier the event asserts although the
\* binding has no sub-key of its name.
ModifierVoids(callback, key) ==
    \/ ~MapHas(callback[2].m, sShift) /\ key[2]
    \/ ~MapHas(callback[2].m, sAlt) /\ key[3]
    \/ ~MapHas(callback[2].m, sControl) /\ key[4]
    \/ ~MapHas(callback[2].m, sMeta) /\ key[5]

\* HandleDown with the press table consulted for every keydown.
HandleDown_AlwaysPress(e, map) ==
    IF ~MapHas(map, sPress) THEN NoCall
    ELSE LET callbacks == MapGet(map, sPress)
             key == ConstructKey(e)
         IN  IF ~MapHas(callbacks, key[1]) THEN NoCall
             ELSE LET callback == MapGet(callbacks, key[1])
                  IN  IF Tolerant(callback) THEN Invoke(callback[1])
                      ELSE IF ModifierVoids(callback, key) THEN NoCall
                      ELSE Invoke(callback[2])

\* HandleDown of Input/Keyboard.js.
HandleDown(e, map) ==
    LET name == IF e.repeat THEN sHold ELSE sPress
    IN  IF ~MapHas(map, name) THEN NoCall
        ELSE LET callbacks == MapGet(map, name)
                 key == ConstructKey(e)
             IN  IF ~MapHas(callbacks, key[1]) THEN NoCall
                 ELSE LET callback == MapGet(callbacks, key[1])
                      IN  IF Tolerant(callback) THEN Invoke(callback[1])
                          ELSE IF ModifierVoids(callback, key) THEN NoCall
                          ELSE Invoke(callback[2])

\* HandleRelease of Input/Keyboard.js.
\* HandleRelease with the press table consulted.
HandleRelease_ConsultsPress(e, map) ==
    IF ~MapHas(map, sPress) THEN NoCall
    ELSE LET callbacks == MapGet(map, sPress)
             key == ConstructKey(e)
         IN  IF ~MapHas(callbacks, key[1]) THEN NoCall
             ELSE LET callback == MapGet(callbacks, key[1])
                  IN  IF Tolerant(callback) THEN Invoke(callback[1])
                      ELSE IF ModifierVoids(callback, key) THEN NoCall
                      ELSE Invoke(callback[2])

HandleRelease(e, map) ==
    IF ~MapHas(map, sRelease) THEN NoCall
    ELSE LET callbacks == MapGet(map, sRelease)
             key == ConstructKey(e)
         IN  IF ~MapHas(callbacks, key[1]) THEN NoCall
             ELSE LET callback == MapGet(callbacks, key[1])
                  IN  IF Tolerant(callback) THEN Invoke(callback[1])
                      ELSE IF ModifierVoids(callback, key) THEN NoCall
                      ELSE Invoke(callback[2])

\* HandleDown of the documented revision of the keyboard interface.
HandleDownDocumented(e, map) ==
    LET name == IF e.repeat THEN sHold ELSE sPress
    IN  IF ~MapHas(map, name) THEN NoCall
        ELSE LET callbacks == MapGet(map, name)
                 key == ConstructKey(e)
             IN  IF ~MapHas(callbacks, key[1]) THEN NoCall
                 ELSE LET callback == MapGet(callbacks, key[1])
                      IN  IF Tolerant(callback) THEN Invoke(callback[1])
                          ELSE IF ModifierVoids(callback, key) THEN NoCall
                          ELSE Invoke(callback[1])

\* HandleRelease of the documented revision of the keyboard interface.
HandleReleaseDocumented(e, map) ==
    IF ~MapHas(map, sRelease) THEN NoCall
    ELSE LET callbacks == MapGet(map, sRelease)
             key == ConstructKey(e)
         IN  IF ~MapHas(callbacks, key[1]) THEN NoCall
             ELSE LET callback == MapGet(callbacks, key[1])
                  IN  IF Tolerant(callback) THEN Invoke(callback[1])
                      ELSE IF ModifierVoids(callback, key) THEN NoCall
                      ELSE Invoke(callback[1])

\* The two revisions of the handlers that the sources hold.
Builds == {"Keyboard.js", "Commands.js"}

(***************************************************************************)
(* Bounds and inputs.                                                      *)
(***************************************************************************)
\* Most LoadMap calls pending at once.
MaxLoads == 2
\* Most lines of a text given to the parser, beyond a fixed base.
MaxLines == 3

\* The text whose lines are ls.
JoinLines(ls) == Join(ls, <<"\n">>)

Header(name) == <<"[">> \o name \o <<"]">>
Assign(k, v) == k \o <<"=">> \o v
Tab(line) == <<"\t">> \o line
Indent(line) == <<" ", " ", " ", " ">> \o line

nF == <<"F">>
nG == <<"G">>
nN == <<"N">>
kW == <<"W">>
kS == <<"S">>
sTrue == <<"t", "r", "u", "e">>
callFu == <<"F", "(", "u", ")">>
callFud == <<"F", "(", "u", ",", "d", ")">>

\* The registries as the camera module fills them: one name for press,
\* another for release, none for hold.
RegCamera ==
    [p \in Phases |->
        IF p = sPress THEN <<[k |-> nF, v |-> "pressF"]>>
        ELSE IF p = sRelease THEN <<[k |-> nG, v |-> "releaseG"]>>
        ELSE <<>>]

\* Both names registered for every phase, each phase with its own
\* functions.
RegAll ==
    [p \in Phases |->
        IF p = sPress
        THEN <<[k |-> nF, v |-> "pressF"], [k |-> nG, v |-> "pressG"]>>
        ELSE IF p = sHold
        THEN <<[k |-> nF, v |-> "holdF"], [k |-> nG, v |-> "holdG"]>>
        ELSE <<[k |-> nF, v |-> "releaseF"], [k |-> nG, v |-> "releaseG"]>>]

Registries == {RegCamera, RegAll}

\* Lines a keymap text is made of.
KeymapLines ==
    { Header(sPress), Header(sHold), Header(sRelease), Header(<<"X">>),
      Assign(kW, callFu), Assign(kS, nG), Assign(kW, nN),
      Tab(Assign(sTolerant, sTrue)), Indent(Assign(sTolerant, sTrue)),
      Tab(Assign(sShift, sTrue)), <<"#", "c">> }

\* Lines a global config text is made of.
GlobalLines ==
    { Header(sSelenium), Header(sGame), Header(<<"X">>),
      Assign(sMode, sDebug), Assign(sFatalityLevel, <<"X">>),
      Assign(sTitle, <<"T">>), Assign(<<"x">>, <<"1">>),
      Tab(Assign(sShort, <<"t">>)), Tab(Assign(<<"x">>, <<"1">>)) }

\* A complete global config.
GlobalBase ==
    << Header(sSelenium), Assign(sMode, sDebug), Header(sGame),
       Assign(sTitle, <<"T">>), Assign(sAuthor, <<"A">>),
       Assign(sLicense, <<"L">>) >>

SeqsUpTo(S, n) == UNION {[1..m -> S] : m \in 0..n}

\* Lines of the [Selenium] section of a global config, and lines that
\* follow the title line of its [Game] section.
SeleniumLines ==
    { Assign(sMode, sDebug), Assign(sMode, sReleaseMode),
      Assign(sMode, <<"X">>), Assign(sFatalityLevel, sAll),
      Assign(sFatalityLevel, sErrors), Assign(sFatalityLevel, sPanics),
      Assign(sFatalityLevel, <<"X">>) }
GameLines ==
    { Assign(sKeywords, <<"a", ",", " ", "b">>), Assign(sDescription, <<"D">>),
      Tab(Assign(sShort, <<"t">>)), Indent(Assign(sShort, <<"t">>)),
      Assign(sTitle, <<"U">>), Header(sGame) }

\* A global config laid out as the README lays it out: the [Selenium]
\* section with the lines sel, the [Game] section with the lines game
\* under its title.
GlobalConfig(sel, game) ==
    JoinLines(<<Header(sSelenium)>> \o sel
              \o <<Header(sGame), Assign(sTitle, <<"T">>)>> \o game
              \o <<Assign(sAuthor, <<"A">>), Assign(sLicense, <<"L">>)>>)

\* A keymap of two sections: a binding, a second header and one more line.
TwoSections(h, l) ==
    JoinLines(<<Header(sPress), Assign(kW, callFu), h, l>>)

\* Lines the line filter drops: an empty line, a line of spaces, a comment
\* and two bindings with a comment marker in them.
DroppedLines ==
    { <<>>, <<" ", " ">>, <<"#", "c">>,
      Assign(kS, <<"F", "(", ";", ")">>),
      Assign(kS, <<"G", " ", "#", "c">>) }

\* ls with the line l put in after its first p lines.
InsertAt(ls, p, l) == SubSeq(ls, 1, p) \o <<l>> \o SubSeq(ls, p + 1, Len(ls))

\* A keymap of one tolerant binding, its sub-key line with or without
\* spaces around it, and one line for the filter to drop.
CommentedTexts ==
    {JoinLines(InsertAt(<<Header(sPress), Assign(kW, callFu), sub>>, p, d)) :
        sub \in { Tab(Assign(sTolerant, sTrue)),
                  <<" ">> \o Tab(Assign(sTolerant, sTrue)) \o <<" ", " ">> },
        p \in 0..3, d \in DroppedLines}

\* Values that call a function with two arguments, with none, and with
\* spaces around the arguments.
CallValues ==
    { callFud, <<"F", "(", ")">>,
      <<"F", "(", "u", " ", " ", ",", " ", "d", ")">> }

\* A keymap of one section and one binding with such a value.
CallTexts ==
    {JoinLines(<<Header(P), Assign(kW, v)>>) : P \in Phases, v \in CallValues}

\* A keymap that binds W, binds it again to a name that is not
\* registered, and goes on with a sub-key line.
ReboundTexts ==
    {JoinLines(<<Header(P), Assign(kW, callFu), Assign(kW, nN),
                 Tab(Assign(sTolerant, sTrue))>>) : P \in Phases}

sFalse == <<"f", "a", "l", "s", "e">>

\* A keymap of one binding whose tolerant sub-key is written as false, or
\* with no value.
UntolerantTexts ==
    {JoinLines(<<Header(P), Assign(kW, callFu),
                 Tab(Assign(sTolerant, v))>>) :
        P \in Phases, v \in {sFalse, <<>>}}

KeymapTexts ==
    {JoinLines(ls) : ls \in SeqsUpTo(KeymapLines, MaxLines)}
        \cup {TwoSections(h, l) :
                h \in {Header(sPress), Header(sHold), Header(<<"X">>)},
                l \in KeymapLines}
        \cup CommentedTexts
        \cup CallTexts
        \cup ReboundTexts
        \cup UntolerantTexts
GlobalTexts ==
    {JoinLines(ls) : ls \in SeqsUpTo(GlobalLines, MaxLines - 1)}
        \cup {JoinLines(GlobalBase \o ls) : ls \in SeqsUpTo(GlobalLines, 1)}
        \cup {GlobalConfig(sel, game) :
                sel \in SeqsUpTo(SeleniumLines, MaxLines - 1),
                game \in SeqsUpTo(GameLines, 1)}

TextsOf(ty) == IF ty = "global" THEN GlobalTexts ELSE KeymapTexts

\* The keymap files the server holds.
KeymapFiles ==
    [ tabbed |->
        JoinLines(<< Header(sPress), Assign(kW, callFu),
                Tab(Assign(sTolerant, sTrue)), Assign(kS, callFud),
                Header(sHold), Assign(kW, nG), Assign(kS, nF),
                Tab(Assign(sTolerant, sTrue)),
                Header(sRelease), Assign(kW, nG), Assign(kS, nF),
                Tab(Assign(sTolerant, sTrue)) >>),
      example |->
        JoinLines(<< Header(sPress), Assign(kW, callFu),
                Indent(Assign(sTolerant, sTrue)) >>),
      broken |->
        JoinLines(<< Header(sPress), Assign(kW, nF),
                Tab(Assign(sShift, sTrue)) >>) ]

FileNames == DOMAIN KeymapFiles
Keys == {kW, kS}
Events ==
    { KeyEvent(ty, code, repeat, shift, alt, ctrl, meta) :
        ty \in {"keydown", "keyup"}, code \in Keys, repeat \in BOOLEAN,
        shift \in BOOLEAN, alt \in BOOLEAN, ctrl \in BOOLEAN,
        meta \in BOOLEAN }

(***************************************************************************)
(* Loading.                                                                *)
(***************************************************************************)
\* Selenium_Assets.LoadFile once fetch has answered with status (0 stands
\* for a fetch that failed): "file", "null" or "throw".
LoadFile(status, fat) ==
    IF status = 200 THEN "file"
    ELSE IF status \in {0, 400, 401, 403, 404, 408, 414, 415, 429}
    THEN IF ErrorThrows(fat) THEN "throw" ELSE "null"
    ELSE "null"

Statuses == {200, 404, 500, 0}

\* How the promise of Selenium_Assets_Configurations.Load settles once
\* the text of the file is there: the Configuration, or what its
\* constructor threw.
Configuration(ty, text, cb, fat) ==
    LET parsed == ParseConfig(ty, text, cb, fat)
    IN  IF parsed.thrown # "none"
        THEN [state |-> "rejected", error |-> parsed.thrown,
              contents |-> <<>>]
        ELSE [state |-> "fulfilled", error |-> "none",
              contents |-> parsed.contents]

Pending == [state |-> "pending", error |-> "none", contents |-> <<>>]
ReturnedNull == [state |-> "null", error |-> "none", contents |-> <<>>]
Rejected(kind) == [state |-> "rejected", error |-> kind, contents |-> <<>>]

\* Load, from the answer of fetch to the return or throw of LoadFile.
LoadAfterFetch(status, fat) ==
    IF LoadFile(status, fat) = "throw" THEN Rejected("FileError")
    ELSE IF LoadFile(status, fat) = "null" THEN ReturnedNull
    ELSE Pending

Remove(seq, i) == SubSeq(seq, 1, i - 1) \o SubSeq(seq, i + 1, Len(seq))

\* Selenium_Data as Data.js initializes it (the fatality level is the
\* variable Fatality).
InitialData ==
    [Mode |-> IntValue(0),
     Title |-> [value |-> StrValue(<<>>), short |-> Null],
     Author |-> StrValue(<<>>),
     Description |-> Null,
     Keywords |-> ListValue(<<>>),
     License |-> StrValue(<<>>)]

\* Selenium_Data.GetShortTitle.
GetShortTitle(data) ==
    IF data.Title.short # Null THEN data.Title.short ELSE data.Title.value

\* EnterGameData: the game data and the fatality level after the loaded
\* global config has been entered.
EnterGameData(data, fat, global_config) ==
    LET engine_section == MapGet(global_config, sSelenium)
        game_section == MapGet(global_config, sGame)
        title == MapGet(game_section, sTitle)
    IN  [Fatality |->
            IF MapHas(engine_section, sFatalityLevel)
            THEN MapGet(engine_section, sFatalityLevel)[1].n
            ELSE fat,
         Data |->
            [Mode |-> MapGet(engine_section, sMode)[1],
             Title |->
                [value |-> title[1],
                 short |-> IF MapHas(title[2].m, sShort)
                           THEN StrValue(MapGet(title[2].m, sShort))
                           ELSE data.Title.short],
             Author |-> MapGet(game_section, sAuthor)[1],
             Description |->
                IF MapHas(game_section, sDescription)
                THEN MapGet(game_section, sDescription)[1]
                ELSE data.Description,
             Keywords |->
                IF MapHas(game_section, sKeywords)
                THEN MapGet(game_section, sKeywords)[1]
                ELSE data.Keywords,
             License |-> MapGet(game_section, sLicense)[1]]]

NoEvent == [type |-> "none"]
NotSettled == "none"

\* The history of the call issued last: none before the first call, the
\* call named name once LoadMap(name) is called, and how it ended once the
\* pending call i, the last of loads while it is pending, has ended.
NoCallYet == [name |-> "none", state |-> "none"]
Issued(name) == [name |-> name, state |-> "pending"]
NewestAfter(i, state) ==
    IF newest.state = "pending" /\ i = Len(loads)
    THEN [newest EXCEPT !.state = state]
    ELSE newest

\* LoadMap with the live keymap emptied when the load begins.
LoadMap_ClearsFirst(name) ==
    /\ Len(loads) < MaxLoads
    /\ newest' = Issued(name)
    /\ loads' = Append(loads, [name |-> name, pc |-> "fetch"])
    /\ Map' = <<>>
    /\ UNCHANGED <<again, Data, start, Fatality, Callbacks, settled, ev,
                   calls, fault, build, type, contents, outcome>>
    /\ UNCHANGED <<listeners, logVars, cameraVars, textureVars>>

\* Selenium_Input_Keyboard.LoadMap, up to its await.
LoadMap(name) ==
    /\ Len(loads) < MaxLoads
    /\ newest' = Issued(name)
    /\ loads' = Append(loads, [name |-> name, pc |-> "fetch"])
    /\ UNCHANGED <<again, Data, start, Fatality, Callbacks, Map, settled, ev,
                   calls, fault, build, type, contents, outcome>>
    /\ UNCHANGED <<listeners, logVars, cameraVars, textureVars>>

\* fetch answers the i-th pending call.  With a file the call goes on to
\* await its text; without one LoadMap returns, or rejects when the error
\* is fatal.
FetchSettles(i, status) ==
    /\ i \in 1..Len(loads)
    /\ loads[i].pc = "fetch"
    /\ LET res == LoadAfterFetch(status, Fatality)
       IN  IF res.state = "pending"
           THEN /\ loads' = [loads EXCEPT ![i].pc = "text"]
                /\ UNCHANGED <<settled, newest>>
           ELSE /\ loads' = Remove(loads, i)
                /\ settled' = res.state
                /\ newest' = NewestAfter(i, res.state)
    /\ UNCHANGED <<again, Data, start, Fatality, Callbacks, Map, ev, calls,
                   fault, build, type, contents, outcome>>
    /\ UNCHANGED <<listeners, logVars, cameraVars, textureVars>>

\* Installed with the sections of the live keymap that the loaded file
\* does not have kept.
Installed_KeepsOldSections(config) ==
    LET Absent(s) == ~MapHas(config.contents, s.k)
    IN  config.contents \o SelectSeq(Map, Absent)

\* What LoadMap assigns to the live keymap.
Installed(config) == config.contents

\* TextSettles with the assignment to the live keymap made whether or not
\* the parse returned.
TextSettles_AssignsAnyway(i) ==
    /\ i \in 1..Len(loads)
    /\ loads[i].pc = "text"
    /\ \E res \in {Configuration("keymap", KeymapFiles[loads[i].name],
                                 Callbacks, Fatality)} :
           /\ Map' = Installed(res)
           /\ settled' = IF res.state = "fulfilled" THEN "installed"
                          ELSE "rejected"
           /\ newest' = NewestAfter(i, IF res.state = "fulfilled"
                                        THEN "installed" ELSE "rejected")
    /\ loads' = Remove(loads, i)
    /\ UNCHANGED <<again, Data, start, Fatality, Callbacks, ev, calls, fault,
                   build, type, contents, outcome>>
    /\ UNCHANGED <<listeners, logVars, cameraVars, textureVars>>

\* The text of the i-th pending call arrives: the file is parsed and
\* LoadMap installs the result, or rejects when the parse threw.
TextSettles(i) ==
    /\ i \in 1..Len(loads)
    /\ loads[i].pc = "text"
    /\ \E res \in {Configuration("keymap", KeymapFiles[loads[i].name],
                                 Callbacks, Fatality)} :
           /\ Map' = IF res.state = "fulfilled" THEN Installed(res) ELSE Map
           /\ settled' = IF res.state = "fulfilled" THEN "installed"
                          ELSE "rejected"
           /\ newest' = NewestAfter(i, IF res.state = "fulfilled"
                                        THEN "installed" ELSE "rejected")
    /\ loads' = Remove(loads, i)
    /\ UNCHANGED <<again, Data, start, Fatality, Callbacks, ev, calls, fault,
                   build, type, contents, outcome>>
    /\ UNCHANGED <<listeners, logVars, cameraVars, textureVars>>

\* A keydown event is delivered.
KeyDown(e) ==
    /\ e.type = "keydown"
    /\ LET res == IF build = "Keyboard.js" THEN HandleDown(e, Map)
                  ELSE HandleDownDocumented(e, Map)
       IN  /\ calls' = res.calls
           /\ fault' = res.fault
    /\ ev' = e
    /\ UNCHANGED <<newest, again, Data, start, Fatality, Callbacks, Map, loads,
                   settled, build, type, contents, outcome>>
    /\ UNCHANGED <<listeners, logVars, cameraVars, textureVars>>

\* A keyup event is delivered.
KeyUp(e) ==
    /\ e.type = "keyup"
    /\ ~e.repeat
    /\ LET res == IF build = "Keyboard.js" THEN HandleRelease(e, Map)
                  ELSE HandleReleaseDocumented(e, Map)
       IN  /\ calls' = res.calls
           /\ fault' = res.fault
    /\ ev' = e
    /\ UNCHANGED <<newest, again, Data, start, Fatality, Callbacks, Map, loads,
                   settled, build, type, contents, outcome>>
    /\ UNCHANGED <<listeners, logVars, cameraVars, textureVars>>

\* The listener list after Selenium_Input_Keyboard.Enable.
Enabled ==
    << [type |-> "keydown", callback |-> "HandleDown"],
       [type |-> "keyup", callback |-> "HandleRelease"] >>

\* Nothing logged yet.
NoLog == [severity |-> "none", message |-> 0, thrown |-> FALSE]
LogInit == LogBuffer = <<>> /\ emitted = <<>> /\ last = NoLog

\* The camera at rest.
Directions == {"up", "down", "left", "right"}
CameraInit == intervals = [d \in Directions |-> Null] /\ timers = {}

\* No texture loaded or asked for.
TextureInit ==
    /\ LoadedTextures = <<>>
    /\ created = <<>>
    /\ stored = {}
    /\ texLoads = <<>>

Init ==
    /\ Fatality \in 0..2
    /\ Callbacks = RegAll
    /\ Map = <<>>
    /\ loads = <<>>
    /\ settled = NotSettled
    /\ ev = NoEvent
    /\ calls = <<>>
    /\ fault = "none"
    /\ build \in Builds
    /\ type = "keymap"
    /\ contents = <<>>
    /\ outcome = Pending
    /\ again = Pending
    /\ Data = InitialData
    /\ start = "load"
    /\ newest = NoCallYet
    /\ listeners = Enabled
    /\ LogInit
    /\ CameraInit
    /\ TextureInit

\* The events delivered while keymaps load: every key and phase with no
\* modifier, and the presses with control.
LoadEvents ==
    {e \in Events :
        /\ ~e.shiftKey /\ ~e.altKey /\ ~e.metaKey
        /\ e.ctrlKey => (e.type = "keydown" /\ ~e.repeat)}

Next ==
    \/ \E name \in FileNames : LoadMap(name)
    \/ \E i \in 1..MaxLoads, status \in Statuses : FetchSettles(i, status)
    \/ \E i \in 1..MaxLoads : TextSettles(i)
    \/ \E e \in LoadEvents : KeyDown(e)
    \/ \E e \in LoadEvents : KeyUp(e)

Spec == Init /\ [][Next]_vars

(***************************************************************************)
(* The load entry point on its own, over every bounded text.               *)
(***************************************************************************)
InitParse ==
    /\ Fatality \in 0..2
    /\ Callbacks \in Registries
    /\ type \in {"global", "keymap"}
    /\ contents \in TextsOf(type)
    /\ outcome = Pending
    /\ again = Pending
    /\ Data = InitialData
    /\ start = "load"
    /\ newest = NoCallYet
    /\ listeners = <<>>
    /\ LogInit
    /\ CameraInit
    /\ TextureInit
    /\ Map = <<>>
    /\ loads = <<>>
    /\ settled = NotSettled
    /\ ev = NoEvent
    /\ calls = <<>>
    /\ fault = "none"
    /\ build = "Keyboard.js"

\* Load when the file cannot be retrieved.
LoadNoFile(status) ==
    /\ outcome = Pending
    /\ status # 200
    /\ outcome' = LoadAfterFetch(status, Fatality)
    /\ UNCHANGED <<newest, again, Data, start, Fatality, Callbacks, Map, loads,
                   settled, ev, calls, fault, build, type, contents>>
    /\ UNCHANGED <<listeners, logVars, cameraVars, textureVars>>

\* LoadText with the registries emptied by the parse.
LoadText_ClearsRegistries ==
    /\ outcome = Pending
    /\ outcome' = Configuration(type, contents, Callbacks, Fatality)
    /\ Callbacks' = [p \in Phases |-> <<>>]
    /\ UNCHANGED <<newest, again, Data, start, Fatality, Map, loads, settled,
                   ev,
                   calls, fault, build, type, contents>>
    /\ UNCHANGED <<listeners, logVars, cameraVars, textureVars>>

\* Load when the file and its text are retrieved.
LoadText ==
    /\ outcome = Pending
    /\ outcome' = Configuration(type, contents, Callbacks, Fatality)
    /\ UNCHANGED <<newest, again, Data, start, Fatality, Callbacks, Map, loads,
                   settled, ev, calls, fault, build, type, contents>>
    /\ UNCHANGED <<listeners, logVars, cameraVars, textureVars>>

\* The same file is loaded once more after a load that returned a tree.
LoadTextAgain ==
    /\ outcome.state = "fulfilled"
    /\ again = Pending
    /\ again' = Configuration(type, contents, Callbacks, Fatality)
    /\ UNCHANGED <<newest, outcome, Data, start, Fatality, Callbacks, Map,
                   loads,
                   settled, ev, calls, fault, build, type, contents>>
    /\ UNCHANGED <<listeners, logVars, cameraVars, textureVars>>

\* Selenium.Start after its await of the global config: the config is
\* entered into the game data, or Start rejects when there is none.
StartContinues ==
    /\ type = "global"
    /\ start = "load"
    /\ outcome # Pending
    /\ IF outcome.state = "fulfilled"
       THEN /\ \E res \in {EnterGameData(Data, Fatality, outcome.contents)} :
                    /\ Data' = res.Data
                    /\ Fatality' = res.Fatality
            /\ start' = "entered"
       ELSE /\ start' = "rejected"
            /\ UNCHANGED <<Data, Fatality>>
    /\ UNCHANGED <<newest, outcome, again, Callbacks, Map, loads, settled,
                   ev, calls,
                   fault, build, type, contents>>
    /\ UNCHANGED <<listeners, logVars, cameraVars, textureVars>>

NextParse ==
    \/ \E status \in Statuses : LoadNoFile(status)
    \/ LoadText
    \/ LoadTextAgain
    \/ StartContinues

SpecParse == InitParse /\ [][NextParse]_vars

(***************************************************************************)
(* The handlers on their own, over every event and every table that a      *)
(* bounded keymap text or a keymap file loads to.                          *)
(***************************************************************************)
DispatchTables ==
    {ParseConfig("keymap", t, r, 2).contents :
        t \in KeymapTexts, r \in Registries}
    \cup {ParseConfig("keymap", KeymapFiles[n], r, 2).contents :
            n \in FileNames, r \in Registries}

InitDispatch ==
    /\ Fatality = 2
    /\ Callbacks = RegAll
    /\ Map \in DispatchTables
    /\ loads = <<>>
    /\ settled = NotSettled
    /\ ev = NoEvent
    /\ calls = <<>>
    /\ fault = "none"
    /\ build \in Builds
    /\ type = "keymap"
    /\ contents = <<>>
    /\ outcome = Pending
    /\ again = Pending
    /\ Data = InitialData
    /\ start = "load"
    /\ newest = NoCallYet
    /\ listeners = Enabled
    /\ LogInit
    /\ CameraInit
    /\ TextureInit

NextDispatch ==
    \/ \E e \in Events : KeyDown(e)
    \/ \E e \in Events : KeyUp(e)

SpecDispatch == InitDispatch /\ [][NextDispatch]_vars

(***************************************************************************)
(* Vocabulary of the properties.                                           *)
(***************************************************************************)
\* The phase of an event: press for a first keydown, hold for a repeated
\* keydown, release for a keyup.
PhaseOf(e) ==
    IF e.type = "keyup" THEN sRelease
    ELSE IF e.repeat THEN sHold ELSE sPress

Delivered == ev # NoEvent

\* The live table binds the key of the event in the phase of the event.
BindingLive(e) ==
    /\ MapHas(Map, PhaseOf(e))
    /\ MapHas(MapGet(Map, PhaseOf(e)), e.code)

BindingOf(e) == MapGet(MapGet(Map, PhaseOf(e)), e.code)

\* A binding marked tolerant: a tolerant sub-key with a truthy value.
MarkedTolerant(entry) ==
    \E n \in 1..Len(entry[2].m) :
        entry[2].m[n].k = sTolerant /\ Len(entry[2].m[n].v) > 0

ModifierNames == {sShift, sAlt, sControl, sMeta}
Asserted(e) ==
    {m \in ModifierNames :
        \/ m = sShift /\ e.shiftKey
        \/ m = sAlt /\ e.altKey
        \/ m = sControl /\ e.ctrlKey
        \/ m = sMeta /\ e.metaKey}
Declared(entry) == {entry[2].m[n].k : n \in 1..Len(entry[2].m)}

(***************************************************************************)
(* C3.  For every phase and every non-tolerant binding with no modifier    *)
(* sub-keys, an event for the bound key with shift, alt, control and meta  *)
(* all unasserted invokes the bound callback exactly once, with its        *)
(* captured argument list.  Input/Keyboard.js calls callback[1], the       *)
(* sub-key Map, on this path, so the statement fails there.                *)
(***************************************************************************)
C3_PlainBindingFires ==
    (/\ Delivered
     /\ BindingLive(ev)
     /\ ~MarkedTolerant(BindingOf(ev))
     /\ Declared(BindingOf(ev)) \cap ModifierNames = {}
     /\ Asserted(ev) = {})
        => (calls = <<BindingOf(ev)[1]>> /\ fault = "none")

(***************************************************************************)
(* C4.  For a non-tolerant binding, an event that asserts a modifier for   *)
(* which the binding has no sub-key of that name invokes nothing and       *)
(* raises no error.                                                        *)
(***************************************************************************)
C4_UndeclaredModifierVoids ==
    (/\ Delivered
     /\ BindingLive(ev)
     /\ ~MarkedTolerant(BindingOf(ev))
     /\ Asserted(ev) \ Declared(BindingOf(ev)) # {})
        => (calls = <<>> /\ fault = "none")

C4_Witness ==
    /\ Delivered
    /\ BindingLive(ev)
    /\ ~MarkedTolerant(BindingOf(ev))
    /\ Asserted(ev) = {sShift}
    /\ calls = <<>>
    /\ fault = "none"

(***************************************************************************)
(* C5.  A binding marked tolerant is invoked exactly once by an event on   *)
(* its key in its phase, whatever combination of shift, alt, control and   *)
(* meta the event asserts.                                                 *)
(***************************************************************************)
C5_TolerantAlwaysFires ==
    (/\ Delivered
     /\ BindingLive(ev)
     /\ MarkedTolerant(BindingOf(ev)))
        => (calls = <<BindingOf(ev)[1]>> /\ fault = "none")

C5_Witness ==
    /\ Delivered
    /\ BindingLive(ev)
    /\ MarkedTolerant(BindingOf(ev))
    /\ Asserted(ev) = ModifierNames
    /\ PhaseOf(ev) = sHold
    /\ calls = <<BindingOf(ev)[1]>>

(***************************************************************************)
(* C6.  A keydown with repeat set consults only the Hold table and a       *)
(* keydown without it only the Press table: whatever a keydown invokes is  *)
(* the binding of its key in its own phase, never the binding the other    *)
(* phase has for that key.                                                 *)
(***************************************************************************)
OtherDown(e) == IF e.repeat THEN sPress ELSE sHold

C6_RepeatConsultsHold ==
    (Delivered /\ ev.type = "keydown")
        => \A n \in 1..Len(calls) :
            /\ BindingLive(ev)
            /\ calls[n] = BindingOf(ev)[1]
            /\ (/\ MapHas(Map, OtherDown(ev))
                /\ MapHas(MapGet(Map, OtherDown(ev)), ev.code))
                    => calls[n] # MapGet(MapGet(Map, OtherDown(ev)),
                                         ev.code)[1]

C6_Witness ==
    /\ Delivered
    /\ ev.type = "keydown"
    /\ ev.repeat
    /\ BindingLive(ev)
    /\ MapHas(Map, sPress)
    /\ MapHas(MapGet(Map, sPress), ev.code)
    /\ calls = <<BindingOf(ev)[1]>>

(***************************************************************************)
(* C7.  End to end: a keymap whose [Press] section has the key line        *)
(* W=F(u) with a `tolerant=true` line indented beneath it as in the        *)
(* specification's example (by four spaces), loaded with F registered for  *)
(* press, yields exactly one press binding, for W, calling F with [u]      *)
(* under a tolerant policy, so that a press of W with control asserted     *)
(* invokes F.  The parser strips the indentation before it looks for the   *)
(* tab that marks a sub-key line, so the statement fails.                  *)
(***************************************************************************)
ExampleText == KeymapFiles.example

\* The example file has been loaded and nothing has replaced its table.
ExampleLive ==
    /\ settled = "installed"
    /\ ParseConfig("keymap", ExampleText, Callbacks, Fatality).thrown = "none"
    /\ Map = ParseConfig("keymap", ExampleText, Callbacks, Fatality).contents

C7_ExampleEndToEnd ==
    ExampleLive =>
        /\ MapHas(Map, sPress)
        /\ MapKeys(MapGet(Map, sPress)) = {kW}
        /\ LET entry == MapGet(MapGet(Map, sPress), kW)
           IN  /\ entry[1] = Bound(MapGet(Callbacks[sPress], nF), TRUE,
                                   <<<<"u">>>>)
               /\ MarkedTolerant(entry)
               /\ (ev = KeyEvent("keydown", kW, FALSE, FALSE, FALSE, TRUE,
                                 FALSE)
                      => calls = <<entry[1]>>)

(***************************************************************************)
(* C8.  Under any interleaving of LoadMap calls and key events the live    *)
(* keymap is either the initial empty table or the complete result of one  *)
(* finished parse: it starts empty, it changes only in the step in which a *)
(* pending load finishes its parse, and then to the whole tree that parse  *)
(* returned;                                                               *)
(* while loads are pending every event is dispatched against the table     *)
(* that was live before, which the event leaves as it is.                  *)
(***************************************************************************)
\* The tree a complete, successful parse of the file called name returns.
ParsedFile(name) ==
    ParseConfig("keymap", KeymapFiles[name], Callbacks, Fatality)

\* The step is the end of the pending load i.
Finishes(i) == i \in 1..Len(loads) /\ loads' = Remove(loads, i)

C8_AtomicSwap ==
    [][/\ Map' # Map =>
            \E i \in 1..Len(loads) :
                /\ Finishes(i)
                /\ loads[i].pc = "text"
                /\ ParsedFile(loads[i].name).thrown = "none"
                /\ Map' = ParsedFile(loads[i].name).contents
       /\ (ev' # ev \/ calls' # calls \/ fault' # fault) =>
            /\ Map' = Map
            /\ \A n \in 1..Len(calls') :
                /\ MapHas(Map, PhaseOf(ev'))
                /\ MapHas(MapGet(Map, PhaseOf(ev')), ev'.code)
                /\ calls'[n] = MapGet(MapGet(Map, PhaseOf(ev')), ev'.code)[1]
      ]_vars

\* An event was dispatched against a loaded table while two further loads
\* were pending, one of them about to be parsed.
C8_Witness ==
    /\ Len(loads) = 2
    /\ \E i \in 1..Len(loads) : loads[i].pc = "text"
    /\ Map # <<>>
    /\ Delivered
    /\ calls # <<>>

(***************************************************************************)
(* C9.  A keymap load that fails, because the file is not retrieved or     *)
(* because the parse aborts, or that has not reached its assignment yet,   *)
(* leaves the live keymap exactly as it was.                               *)
(***************************************************************************)
\* The pending load i ends in this step without a parsed tree.
Fails(i) ==
    /\ Finishes(i)
    /\ \/ loads[i].pc = "fetch"
       \/ ParsedFile(loads[i].name).thrown # "none"

C9_FailedLoadKeepsMap ==
    [][((\E i \in 1..Len(loads) : Fails(i)) \/ Len(loads') >= Len(loads))
            => Map' = Map]_vars

\* A load has failed while a loaded table was live, and the table is
\* still there.
C9_Witness ==
    /\ settled = "rejected"
    /\ Map # <<>>
    /\ loads = <<>>

(***************************************************************************)
(* Vocabulary of the properties about texts.                               *)
(***************************************************************************)
IsHeaderLine(l) == l[1] = "["
IsSubkeyLine(l) == l[1] = "\t"
IsKeyLine(l) == ~IsHeaderLine(l) /\ ~IsSubkeyLine(l)

\* The part of a line before its first c, and the part after it.
Before(l, c) ==
    IF \E n \in 1..Len(l) : l[n] = c
    THEN SubSeq(l, 1, (CHOOSE n \in 1..Len(l) :
                        l[n] = c /\ \A m \in 1..(n - 1) : l[m] # c) - 1)
    ELSE l
After(l, c) == SubSeq(l, Len(Before(l, c)) + 2, Len(l))

KeyNameOf(l) == Before(l, "=")
CallNameOf(l) == Before(After(l, "="), "(")

\* The header line that opens the section line n of ls lies in; 0 when no
\* header precedes it.
HeaderBefore(ls, n) ==
    IF \E j \in 1..(n - 1) : IsHeaderLine(ls[j])
    THEN CHOOSE j \in 1..(n - 1) :
            IsHeaderLine(ls[j]) /\ \A m \in (j + 1)..(n - 1) :
                                        ~IsHeaderLine(ls[m])
    ELSE 0

\* The key lines of the section P of the text: those under the last
\* header [P].
KeyLinesOf(ls, P) ==
    {n \in 1..Len(ls) :
        /\ IsKeyLine(ls[n])
        /\ HeaderBefore(ls, n) # 0
        /\ ls[HeaderBefore(ls, n)] = Header(P)
        /\ \A m \in (n + 1)..Len(ls) : ls[m] # Header(P)}

\* Those of them whose callback name the registry of P has.
RegisteredLinesOf(ls, P) ==
    {n \in KeyLinesOf(ls, P) : MapHas(Callbacks[P], CallNameOf(ls[n]))}

TableKeys(tree, P) == IF MapHas(tree, P) THEN MapKeys(MapGet(tree, P)) ELSE {}

Loaded == outcome.state = "fulfilled"

(***************************************************************************)
(* C1.  For every keymap text and every content of the registries, the     *)
(* table a keymap parse returns holds, in each of Press, Hold and Release, *)
(* exactly the key lines of that section whose callback name is registered *)
(* in the registry of that same phase, each bound to the function that     *)
(* registry gives (the last such line of a key deciding).  The key lines   *)
(* under an unrecognized header are entered into the section before it,    *)
(* so the statement fails.                                                 *)
(***************************************************************************)
C1_TableIsRegisteredLines ==
    (Loaded /\ type = "keymap") =>
        LET ls == Lines(contents)
        IN  \A P \in Phases :
                /\ TableKeys(outcome.contents, P) =
                        {KeyNameOf(ls[n]) : n \in RegisteredLinesOf(ls, P)}
                /\ \A n \in RegisteredLinesOf(ls, P) :
                    (\A m \in RegisteredLinesOf(ls, P) :
                        KeyNameOf(ls[m]) = KeyNameOf(ls[n]) => m <= n)
                    => MapGet(MapGet(outcome.contents, P),
                              KeyNameOf(ls[n]))[1].f
                            = MapGet(Callbacks[P], CallNameOf(ls[n]))

\* The same statement for the texts all of whose headers are phases.
C1_Aux_RecognizedHeadersOnly ==
    (\A n \in 1..Len(Lines(contents)) :
        IsHeaderLine(Lines(contents)[n])
            => \E P \in Phases : Lines(contents)[n] = Header(P))
        => C1_TableIsRegisteredLines

(***************************************************************************)
(* C2.  As stated: a keymap entry whose callback name fails registry       *)
(* lookup is recoverable at every fatality level, so no keymap load is     *)
(* ever aborted by the error such a lookup reports.                        *)
(***************************************************************************)
C2_Original_RecoverableAtEveryLevel ==
    type = "keymap" => outcome.error # "Error"

\* The locals of ParseConfig after the first n lines.
StateAfter(ls, n) ==
    ParseLines(type, ParseStart, SubSeq(ls, 1, n), Callbacks, Fatality)

\* The parse reaches line n, a key line whose callback name the registry
\* of the open section does not have.
FailedLookupAt(ls, n) ==
    /\ StateAfter(ls, n - 1).thrown = "none"
    /\ IsKeyLine(ls[n])
    /\ LET section == StateAfter(ls, n - 1).section_name
       IN  \/ section \notin Phases
           \/ ~MapHas(Callbacks[section], CallNameOf(ls[n]))

(***************************************************************************)
(* C2, amended.  A keymap entry whose callback name fails registry lookup  *)
(* is recoverable at fatality level Panics (2) only: there the entry is    *)
(* omitted, nothing else of the parse changes but the current key, and the *)
(* parse goes on with the next line, so the load is never aborted by the   *)
(* lookup; at All (0) and Errors (1) the error is fatal at that line and   *)
(* the load returns no table.                                              *)
(***************************************************************************)
C2_RecoverableAtPanicsOnly ==
    (type = "keymap" /\ outcome.state \in {"fulfilled", "rejected"}
        /\ outcome.error # "FileError") =>
        LET ls == Lines(contents)
        IN  /\ Fatality = 2 => outcome.error # "Error"
            /\ \A n \in 1..Len(ls) :
                FailedLookupAt(ls, n) =>
                    IF Fatality = 2
                    THEN StateAfter(ls, n) =
                            [StateAfter(ls, n - 1) EXCEPT
                                !.key = KeyNameOf(ls[n])]
                    ELSE outcome = Rejected("Error")

\* A load at level Panics that met a failed lookup, went on, and returned
\* a table with an entry from a later line.
C2_Witness ==
    /\ type = "keymap"
    /\ Fatality = 2
    /\ Loaded
    /\ LET ls == Lines(contents)
       IN  \E n \in 1..Len(ls) :
            /\ FailedLookupAt(ls, n)
            /\ \E P \in Phases : \E m \in RegisteredLinesOf(ls, P) : m > n
    /\ \E P \in Phases : TableKeys(outcome.contents, P) # {}

(***************************************************************************)
(* C10.  For every text and both kinds, the load entry point returns a     *)
(* tree or the failure indicator null: no parse-time error leaves it as a  *)
(* thrown exception or a rejected promise.  Panic, a fatal Error or        *)
(* Warning, and the TypeError of a misplaced sub-key all reject the        *)
(* promise of Load, so the statement fails.                                *)
(***************************************************************************)
ParseTimeErrors == {"Panic", "Error", "Warning", "TypeError"}

C10_NoParseErrorEscapes ==
    /\ outcome.state \in {"pending", "fulfilled", "null", "rejected"}
    /\ outcome.state = "rejected" => outcome.error \notin ParseTimeErrors

(***************************************************************************)
(* Vocabulary of the properties about global configs.                      *)
(***************************************************************************)
ValueOf(l) == After(l, "=")

\* Line n is the line of the section P that decides the value of its key:
\* the last line for that key under the last header [P].
Decides(ls, P, n) ==
    /\ n \in KeyLinesOf(ls, P)
    /\ \A m \in KeyLinesOf(ls, P) :
            KeyNameOf(ls[m]) = KeyNameOf(ls[n]) => m <= n

\* The enumerations of the [Selenium] section: key, word, number.
Enums ==
    { <<sMode, sDebug, 0>>, <<sMode, sReleaseMode, 1>>,
      <<sFatalityLevel, sAll, 0>>, <<sFatalityLevel, sErrors, 1>>,
      <<sFatalityLevel, sPanics, 2>> }

\* The entry of a key in a section of the returned tree.
Has(tree, P, k) == MapHas(tree, P) /\ MapHas(MapGet(tree, P), k)
EntryOf(tree, P, k) == MapGet(MapGet(tree, P), k)

GlobalLoaded == Loaded /\ type = "global"

(***************************************************************************)
(* C11.  Every global config that loads has mode in its Selenium section   *)
(* and title, author and license in its Game section, each with a value    *)
(* that is not null, and a mode of Debug or Release is decoded to 0 or 1   *)
(* and a fatality_level of All, Errors or Panics to 0, 1 or 2.             *)
(***************************************************************************)
C11_RequiredAndEnums ==
    GlobalLoaded =>
        LET ls == Lines(contents)
            tree == outcome.contents
        IN  /\ \A req \in {<<sSelenium, sMode>>, <<sGame, sTitle>>,
                            <<sGame, sAuthor>>, <<sGame, sLicense>>} :
                    /\ Has(tree, req[1], req[2])
                    /\ EntryOf(tree, req[1], req[2])[1].t
                            \in {"int", "str", "list"}
            /\ \A n \in 1..Len(ls) : \A e \in Enums :
                    (/\ Decides(ls, sSelenium, n)
                     /\ KeyNameOf(ls[n]) = e[1]
                     /\ ValueOf(ls[n]) = e[2])
                        => /\ Has(tree, sSelenium, e[1])
                           /\ EntryOf(tree, sSelenium, e[1])[1]
                                = IntValue(e[3])

\* A config with mode Release and fatality level Panics has loaded.
C11_Witness ==
    /\ GlobalLoaded
    /\ Has(outcome.contents, sSelenium, sFatalityLevel)
    /\ EntryOf(outcome.contents, sSelenium, sMode)[1] = IntValue(1)
    /\ EntryOf(outcome.contents, sSelenium, sFatalityLevel)[1] = IntValue(2)
    /\ EntryOf(outcome.contents, sGame, sTitle)[1] = StrValue(<<"T">>)

\* The four required keys, each with its section.
Required ==
    {<<sSelenium, sMode>>, <<sGame, sTitle>>, <<sGame, sAuthor>>,
     <<sGame, sLicense>>}

\* The text gives the key k in its section P.
Gives(ls, P, k) == \E n \in KeyLinesOf(ls, P) : KeyNameOf(ls[n]) = k

\* Load has settled on the text of the file, by a tree or by a throw.
Parsed ==
    /\ outcome.state \in {"fulfilled", "rejected"}
    /\ outcome.error # "FileError"

\* The loop of ParseConfig runs through every line of the text.
LoopCompletes(ls) == StateAfter(ls, Len(ls)).thrown = "none"

(***************************************************************************)
(* C12.  A global parse returns a tree only if the text gives mode in its  *)
(* final Selenium section and title, author and license in its final Game  *)
(* section; when the lines are all accepted and one of the four (or a      *)
(* section) is missing, the parse panics whatever the fatality level and   *)
(* no tree is returned.                                                    *)
(***************************************************************************)
C12_RequiredOrFatal ==
    (type = "global" /\ Parsed) =>
        LET ls == Lines(contents)
            complete == \A req \in Required : Gives(ls, req[1], req[2])
        IN  /\ Loaded => complete /\ RequiredPresent(outcome.contents)
            /\ (LoopCompletes(ls) /\ ~complete)
                    => outcome = Rejected("Panic")
            /\ (LoopCompletes(ls) /\ complete) => Loaded

\* A config whose lines are all accepted and that lacks nothing but mode
\* has been refused.
C12_Witness ==
    /\ type = "global"
    /\ outcome = Rejected("Panic")
    /\ LoopCompletes(Lines(contents))
    /\ \A req \in Required \ {<<sSelenium, sMode>>} :
            Gives(Lines(contents), req[1], req[2])
    /\ ~Gives(Lines(contents), sSelenium, sMode)

(***************************************************************************)
(* C13.  In every tree a global parse returns, mode is 0 or 1,             *)
(* fatality_level, when present, is 0, 1 or 2, and keywords, when present, *)
(* is a list of strings: a mode other than Debug and Release and a         *)
(* fatality_level other than All, Errors and Panics abort the load.        *)
(* ParseValue has no rejecting branch for mode, so a mode that is neither  *)
(* word is returned as the string it is and the statement fails.           *)
(***************************************************************************)
C13_TypedValuesConsistent ==
    GlobalLoaded =>
        LET tree == outcome.contents
        IN  /\ EntryOf(tree, sSelenium, sMode)[1] \in {IntValue(0), IntValue(1)}
            /\ Has(tree, sSelenium, sFatalityLevel)
                    => EntryOf(tree, sSelenium, sFatalityLevel)[1]
                            \in {IntValue(0), IntValue(1), IntValue(2)}
            /\ Has(tree, sGame, sKeywords)
                    => EntryOf(tree, sGame, sKeywords)[1].t = "list"

\* The part of the statement about fatality_level and keywords.
C13_Aux_FatalityAndKeywords ==
    GlobalLoaded =>
        LET tree == outcome.contents
        IN  /\ Has(tree, sSelenium, sFatalityLevel)
                    => EntryOf(tree, sSelenium, sFatalityLevel)[1]
                            \in {IntValue(0), IntValue(1), IntValue(2)}
            /\ Has(tree, sGame, sKeywords)
                    => EntryOf(tree, sGame, sKeywords)[1]
                            = ListValue(<< <<"a">>, <<"b">> >>)

\* The name in a header line.
SectionOf(l) == SubSeq(l, 2, Len(l) - 1)

\* The section line n of ls lies in, and the key open at line n: the name
\* of the last key line before it in its section; <<>> when there is none.
SectionAt(ls, n) ==
    IF HeaderBefore(ls, n) = 0 THEN <<>>
    ELSE SectionOf(ls[HeaderBefore(ls, n)])
OpenKeyAt(ls, n) ==
    IF \E m \in (HeaderBefore(ls, n) + 1)..(n - 1) : IsKeyLine(ls[m])
    THEN KeyNameOf(ls[CHOOSE m \in (HeaderBefore(ls, n) + 1)..(n - 1) :
                        /\ IsKeyLine(ls[m])
                        /\ \A j \in (m + 1)..(n - 1) : ~IsKeyLine(ls[j])])
    ELSE <<>>
SubkeyNameOf(l) == Before(Tail(l), "=")

\* The keys the README documents for the sections of a global config.
DocumentedKeys(P) ==
    IF P = sSelenium THEN {sMode, sFatalityLevel}
    ELSE {sTitle, sAuthor, sDescription, sKeywords, sLicense}

\* Line n of a global config is illegal where it stands, the keys of a
\* section being keys; with sectioned set, only the lines that follow a
\* header are judged.
IllegalAt(ls, n, keys, sectioned) ==
    /\ sectioned => (IsHeaderLine(ls[n]) \/ HeaderBefore(ls, n) # 0)
    /\ \/ IsHeaderLine(ls[n]) /\ SectionOf(ls[n]) \notin {sSelenium, sGame}
       \/ /\ IsKeyLine(ls[n])
          /\ SectionAt(ls, n) \in {sSelenium, sGame}
          /\ KeyNameOf(ls[n]) \notin keys[SectionAt(ls, n)]
       \/ /\ IsSubkeyLine(ls[n])
          /\ ~(/\ SectionAt(ls, n) = sGame
               /\ OpenKeyAt(ls, n) = sTitle
               /\ SubkeyNameOf(ls[n]) = sShort)

\* The parse panics at the first illegal line and returns no tree.
PanicsAtIllegal(keys, sectioned) ==
    (type = "global" /\ Parsed) =>
        LET ls == Lines(contents)
        IN  \A n \in 1..Len(ls) :
                (StateAfter(ls, n - 1).thrown = "none"
                    /\ IllegalAt(ls, n, keys, sectioned))
                => /\ StateAfter(ls, n).thrown = "Panic"
                   /\ outcome = Rejected("Panic")

(***************************************************************************)
(* C14.  In a global config a section header other than Selenium and       *)
(* Game, a key that is not a documented key of its section and a sub-key   *)
(* other than `short` under the title key of the Game section each make    *)
(* the parse panic at that line, and no tree is returned.  CheckKeyName    *)
(* accepts `short` as a key of the Game section, and the lines before the  *)
(* first header are checked as lines of the Game section, so the statement *)
(* fails for a `short=` key line and for a `short` sub-key line under a    *)
(* title that no section holds.                                            *)
(***************************************************************************)
C14_IllegalIsFatal ==
    PanicsAtIllegal([P \in {sSelenium, sGame} |-> DocumentedKeys(P)], FALSE)

\* The same statement for the lines that follow a header, with `short`
\* counted among the keys of Game.
C14_Aux_SectionedWithShortAsKey ==
    PanicsAtIllegal([P \in {sSelenium, sGame} |->
                        IF P = sGame THEN DocumentedKeys(P) \cup {sShort}
                        ELSE DocumentedKeys(P)], TRUE)

\* The same statement for the lines that follow a header.
C14_Aux_Sectioned ==
    PanicsAtIllegal([P \in {sSelenium, sGame} |-> DocumentedKeys(P)], TRUE)

(***************************************************************************)
(* C15.  The key check for global configs returns true exactly for the     *)
(* documented keys of the section (Selenium: mode, fatality_level; Game:   *)
(* title, author, description, keywords, license): it is true for          *)
(* (Game, title), false for (Game, nonsense), and false for `short`,       *)
(* which is legal only as a sub-key of title.  For every key line the      *)
(* parse reaches in a section, the check it makes agrees with that set.    *)
(* CheckKeyName returns true for (Game, short), so the statement fails.    *)
(***************************************************************************)
C15_KeyLegality ==
    /\ CheckKeyName("global", sGame, sTitle)
    /\ ~CheckKeyName("global", sGame,
                     <<"n", "o", "n", "s", "e", "n", "s", "e">>)
    /\ (type = "global" /\ Parsed) =>
            LET ls == Lines(contents)
            IN  \A n \in 1..Len(ls) :
                    (/\ StateAfter(ls, n - 1).thrown = "none"
                     /\ IsKeyLine(ls[n])
                     /\ SectionAt(ls, n) \in {sSelenium, sGame})
                    => (CheckKeyName(type, StateAfter(ls, n - 1).section_name,
                                     KeyNameOf(ls[n]))
                            <=> KeyNameOf(ls[n])
                                    \in DocumentedKeys(SectionAt(ls, n)))

\* The same statement for every name but `short`.
C15_Aux_AllButShort ==
    (type = "global" /\ Parsed) =>
        LET ls == Lines(contents)
        IN  \A n \in 1..Len(ls) :
                (/\ StateAfter(ls, n - 1).thrown = "none"
                 /\ IsKeyLine(ls[n])
                 /\ KeyNameOf(ls[n]) # sShort
                 /\ SectionAt(ls, n) \in {sSelenium, sGame})
                => (CheckKeyName(type, StateAfter(ls, n - 1).section_name,
                                 KeyNameOf(ls[n]))
                        <=> KeyNameOf(ls[n])
                                \in DocumentedKeys(SectionAt(ls, n)))

(***************************************************************************)
(* C16.  In a keymap every key name is accepted under a Press, Hold or     *)
(* Release section: a key line there never makes the parse panic.  The     *)
(* only legal sub-key is `tolerant`: a sub-key line of any other name,     *)
(* shift, alt, control and meta included, makes the parse panic at that    *)
(* line, and a `tolerant` line does not.                                   *)
(***************************************************************************)
C16_KeymapKeysAndSubkeys ==
    (type = "keymap" /\ Parsed) =>
        LET ls == Lines(contents)
        IN  \A n \in 1..Len(ls) :
                StateAfter(ls, n - 1).thrown = "none" =>
                    /\ (IsKeyLine(ls[n]) /\ SectionAt(ls, n) \in Phases)
                            => StateAfter(ls, n).thrown # "Panic"
                    /\ (IsSubkeyLine(ls[n])
                            /\ SubkeyNameOf(ls[n]) # sTolerant)
                            => /\ StateAfter(ls, n).thrown = "Panic"
                               /\ outcome = Rejected("Panic")
                    /\ (IsSubkeyLine(ls[n])
                            /\ SubkeyNameOf(ls[n]) = sTolerant)
                            => StateAfter(ls, n).thrown # "Panic"

\* A keymap with a shift sub-key under a registered binding has been
\* refused.
C16_Witness ==
    /\ type = "keymap"
    /\ outcome = Rejected("Panic")
    /\ LET ls == Lines(contents)
       IN  \E n \in 2..Len(ls) :
            /\ StateAfter(ls, n - 1).thrown = "none"
            /\ StateAfter(ls, n - 1).section # <<>>
            /\ IsKeyLine(ls[n - 1])
            /\ IsSubkeyLine(ls[n])
            /\ SubkeyNameOf(ls[n]) = sShift

(***************************************************************************)
(* C17.  A section header clears the current key: a sub-key line with no   *)
(* key line before it in its section (at the start of the text or right    *)
(* after a header) aborts the load; it is never dropped and never attached *)
(* to a key opened in an earlier section.  The header branch leaves the    *)
(* current key as it was, and after an unrecognized keymap header the      *)
(* section as well, so such a line is attached to the last binding of the  *)
(* section before and the statement fails.                                 *)
(***************************************************************************)
\* Line n is a sub-key line that no key line of its section precedes.
OrphanAt(ls, n) == IsSubkeyLine(ls[n]) /\ OpenKeyAt(ls, n) = <<>>

C17_OrphanSubkeyAborts ==
    Parsed =>
        LET ls == Lines(contents)
        IN  \A n \in 1..Len(ls) :
                (StateAfter(ls, n - 1).thrown = "none" /\ OrphanAt(ls, n))
                => /\ StateAfter(ls, n).thrown # "none"
                   /\ outcome.state = "rejected"

\* The same statement with the abort required to be the panic by which the
\* parser reports a malformed config.
C17_Aux_OrphanSubkeyPanics ==
    Parsed =>
        LET ls == Lines(contents)
        IN  \A n \in 1..Len(ls) :
                (StateAfter(ls, n - 1).thrown = "none" /\ OrphanAt(ls, n))
                => StateAfter(ls, n).thrown = "Panic"

\* The statement for the texts whose headers are all recognized.
C17_Aux_RecognizedHeadersOnly ==
    (\A n \in 1..Len(Lines(contents)) :
        IsHeaderLine(Lines(contents)[n])
            => CheckSectionName(type, SectionOf(Lines(contents)[n])))
        => C17_OrphanSubkeyAborts

\* The last header line of the section P in the text; 0 when it has none.
LastHeader(ls, P) ==
    IF \E h \in 1..Len(ls) : ls[h] = Header(P)
    THEN CHOOSE h \in 1..Len(ls) :
            ls[h] = Header(P) /\ \A j \in (h + 1)..Len(ls) : ls[j] # Header(P)
    ELSE 0

\* The text names the section P in two headers, the earlier one with a
\* key line under it.
Duplicated(ls, P) ==
    \E h \in 1..(LastHeader(ls, P) - 2) :
        ls[h] = Header(P) /\ IsKeyLine(ls[h + 1])

\* The lines of the text from the last header of P on.
FromLastHeader(ls, P) == SubSeq(ls, LastHeader(ls, P), Len(ls))

\* The tree the loop of ParseConfig builds from the lines ls.
TreeOf(ls) ==
    LET st == ParseLines(type, ParseStart, ls, Callbacks, Fatality)
    IN  IF st.section_name # <<>>
        THEN MapSet(st.parsed_contents, st.section_name, st.section)
        ELSE st.parsed_contents

(***************************************************************************)
(* C18.  In every returned tree the section names are unique, and when the *)
(* text has two headers of one name the tree holds the entries of the      *)
(* later section only: every key of the section is given by a line after   *)
(* the last header of that name, and the section is the one a parse of the *)
(* text from that header on builds.  Sections are overwritten, not merged. *)
(***************************************************************************)
C18_SectionsOverwritten ==
    Loaded =>
        LET ls == Lines(contents)
            tree == outcome.contents
        IN  /\ \A i, j \in 1..Len(tree) : tree[i].k = tree[j].k => i = j
            /\ \A i \in 1..Len(tree) :
                    /\ LastHeader(ls, tree[i].k) # 0
                    /\ MapKeys(tree[i].v) \subseteq
                            {KeyNameOf(ls[n]) :
                                n \in {m \in (LastHeader(ls, tree[i].k) + 1)
                                                ..Len(ls) : IsKeyLine(ls[m])}}
                    /\ tree[i].v =
                            MapGet(TreeOf(FromLastHeader(ls, tree[i].k)),
                                   tree[i].k)

\* A keymap whose first Press section binds W and whose second one binds
\* S has loaded: the table binds S alone.
C18_Witness ==
    /\ Loaded
    /\ Duplicated(Lines(contents), sPress)
    /\ KeyNameOf(Lines(contents)[2]) = kW
    /\ TableKeys(outcome.contents, sPress) = {kS}

RawLines == Split(contents, "\n")

\* The last title line of the file; 0 when it has none.
TitleLine ==
    IF \E n \in 1..Len(RawLines) : KeyNameOf(RawLines[n]) = sTitle
    THEN CHOOSE n \in 1..Len(RawLines) :
            /\ KeyNameOf(RawLines[n]) = sTitle
            /\ \A m \in (n + 1)..Len(RawLines) :
                    KeyNameOf(RawLines[m]) # sTitle
    ELSE 0

\* The line l is a `short` line indented by the characters of indents.
IndentedShort(l, indents) ==
    \E k \in 1..Len(l) :
        /\ \A j \in 1..k : l[j] \in indents
        /\ KeyNameOf(SubSeq(l, k + 1, Len(l))) = sShort

\* The short title the file asks for: the value of the `short` line
\* indented under its title, and the title when there is none.
ShortTitleAsked(indents) ==
    IF /\ TitleLine < Len(RawLines)
       /\ IndentedShort(RawLines[TitleLine + 1], indents)
    THEN ValueOf(RawLines[TitleLine + 1])
    ELSE ValueOf(RawLines[TitleLine])

Entered == type = "global" /\ start = "entered"

(***************************************************************************)
(* C20.  After the global config has been loaded and entered into the game *)
(* data, the short title is the value of the `short` line indented under   *)
(* `title` when the config has one, indented by spaces as the README       *)
(* shows it or by a tab, and the full title when it has none.  The parser  *)
(* strips the spaces before it looks for the tab of a sub-key line, so a   *)
(* `short` line indented by spaces is read as a key of the section and     *)
(* the short title stays the full title: the statement fails.              *)
(***************************************************************************)
C20_ShortTitle ==
    Entered => GetShortTitle(Data) = StrValue(ShortTitleAsked({" ", "\t"}))

\* The same statement with the tab as the only indentation.
C20_Aux_TabOnly ==
    Entered => GetShortTitle(Data) = StrValue(ShortTitleAsked({"\t"}))

\* The line l with its indentation removed.
RECURSIVE Unindented(_)
Unindented(l) ==
    IF l # <<>> /\ Head(l) \in {" ", "\t"} THEN Unindented(Tail(l)) ELSE l

\* The keys of a global config that the README marks optional.
OptionalKeys == {sFatalityLevel, sShort, sDescription, sKeywords}

\* The file gives none of the optional keys, as a key or as a sub-key.
OmitsOptional ==
    \A n \in 1..Len(RawLines) :
        KeyNameOf(Unindented(RawLines[n])) \notin OptionalKeys

\* The step is EnterGameData on the game data as Data.js initializes it.
EntersFresh ==
    /\ type = "global"
    /\ start = "load"
    /\ start' = "entered"
    /\ Data = InitialData
    /\ Fatality = 2

(***************************************************************************)
(* C21.  When the global config omits the optional keys, the game data     *)
(* holds the documented defaults after startup: fatality level Panics (2), *)
(* a short title equal to the title, the empty string as description and   *)
(* the empty array as keywords.  Data.js initializes the description to    *)
(* null and EnterGameData leaves it so, so the statement fails.            *)
(***************************************************************************)
C21_DocumentedDefaults ==
    [][(EntersFresh /\ OmitsOptional) =>
            /\ Fatality' = 2
            /\ GetShortTitle(Data') = Data'.Title.value
            /\ Data'.Title.value = StrValue(ValueOf(RawLines[TitleLine]))
            /\ Data'.Description = StrValue(<<>>)
            /\ Data'.Keywords = ListValue(<<>>)]_vars

\* The same statement without the description.
C21_Aux_AllButDescription ==
    [][(EntersFresh /\ OmitsOptional) =>
            /\ Fatality' = 2
            /\ GetShortTitle(Data') = Data'.Title.value
            /\ Data'.Title.value = StrValue(ValueOf(RawLines[TitleLine]))
            /\ Data'.Description = Null
            /\ Data'.Keywords = ListValue(<<>>)]_vars

\* The functions registered for the phase P.
FunctionsOf(P) == {Callbacks[P][n].v : n \in 1..Len(Callbacks[P])}

(***************************************************************************)
(* C22.  Every event causes at most one callback invocation, and the       *)
(* callback invoked, if any, is the binding stored under the event's own   *)
(* phase and key: a keyup invokes nothing but a function registered for    *)
(* release, bound in the Release table, and a keydown never invokes one.   *)
(***************************************************************************)
C22_OwnPhaseAtMostOnce ==
    Delivered =>
        /\ Len(calls) <= 1
        /\ \A n \in 1..Len(calls) :
                /\ BindingLive(ev)
                /\ calls[n] = BindingOf(ev)[1]
                /\ calls[n].f \in FunctionsOf(PhaseOf(ev))
                /\ ev.type = "keyup" <=> calls[n].f \in FunctionsOf(sRelease)

\* A keyup on a key that the press table binds as well has invoked the
\* release binding.
C22_Witness ==
    /\ Delivered
    /\ ev.type = "keyup"
    /\ BindingLive(ev)
    /\ MapHas(Map, sPress)
    /\ MapHas(MapGet(Map, sPress), ev.code)
    /\ calls = <<BindingOf(ev)[1]>>
    /\ calls[1].f \in FunctionsOf(sRelease)

\* The table binds the key of the event e in the phase of e.
Binds(table, e) ==
    /\ MapHas(table, PhaseOf(e))
    /\ MapHas(MapGet(table, PhaseOf(e)), e.code)

(***************************************************************************)
(* C23.  An event whose key has no binding in the table of its phase, or   *)
(* whose phase has no section in the live table (the initial empty table   *)
(* included), is a no-op: no callback is invoked, no error is raised and   *)
(* the live table is left as it is.                                        *)
(***************************************************************************)
C23_UnboundIsNoOp ==
    [][(ev' # NoEvent /\ ~Binds(Map, ev')
            /\ <<ev', calls', fault'>> # <<ev, calls, fault>>)
        => (calls' = <<>> /\ fault' = "none" /\ Map' = Map)]_vars

\* A key that the section of its phase does not bind has been pressed.
C23_Witness ==
    /\ Delivered
    /\ MapHas(Map, PhaseOf(ev))
    /\ MapGet(Map, PhaseOf(ev)) # <<>>
    /\ ~MapHas(MapGet(Map, PhaseOf(ev)), ev.code)
    /\ calls = <<>>
    /\ fault = "none"

\* Line n of a keymap is the header of an unrecognized section, or follows
\* one before the next header.
UnderUnrecognized(ls, n) ==
    IF IsHeaderLine(ls[n]) THEN SectionOf(ls[n]) \notin Phases
    ELSE HeaderBefore(ls, n) # 0 /\ SectionAt(ls, n) \notin Phases

\* The first n lines of ls without the unrecognized sections.
RECURSIVE WithoutUnrecognized(_, _)
WithoutUnrecognized(ls, n) ==
    IF n = 0 THEN <<>>
    ELSE WithoutUnrecognized(ls, n - 1)
            \o (IF UnderUnrecognized(ls, n) THEN <<>> ELSE <<ls[n]>>)

KeymapLoaded == Loaded /\ type = "keymap"

(***************************************************************************)
(* C24.  An unrecognized section of a keymap is skipped: the table that    *)
(* is returned has no section of that name, and the key and sub-key lines  *)
(* between its header and the next header add, replace and modify nothing  *)
(* in Press, Hold and Release, so that the table is the one the text       *)
(* without that section loads to.  The header branch warns and continues   *)
(* with the section before still open, which takes the lines, so the       *)
(* statement fails.                                                        *)
(***************************************************************************)
C24_UnrecognizedSkipped ==
    KeymapLoaded =>
        LET ls == Lines(contents)
        IN  /\ \A i \in 1..Len(outcome.contents) :
                    outcome.contents[i].k \in Phases
            /\ outcome.contents = TreeOf(WithoutUnrecognized(ls, Len(ls)))

\* The part of the statement about the sections of the table.
C24_Aux_NoSuchSection ==
    KeymapLoaded =>
        \A i \in 1..Len(outcome.contents) : outcome.contents[i].k \in Phases

(***************************************************************************)
(* The handlers over tables assigned to Selenium_Input_Keyboard.Map, a     *)
(* writable field of the keyboard namespace, whose bindings carry modifier *)
(* sub-keys.  No keymap text loads to such a table: the parser refuses     *)
(* every sub-key of a keymap but `tolerant`.                               *)
(***************************************************************************)
\* The sub-key Map that has the modifiers of ms, each with the value true.
RECURSIVE SubkeysOf(_)
SubkeysOf(ms) ==
    IF ms = {} THEN <<>>
    ELSE LET m == CHOOSE x \in ms : TRUE
         IN  MapSet(SubkeysOf(ms \ {m}), m, sTrue)

\* W bound in every phase to the F of that phase, under the sub-keys ms.
PolicyTable(ms) ==
    << [k |-> sPress,
        v |-> <<[k |-> kW,
                 v |-> <<Bound("pressF", FALSE, <<>>),
                         MapValue(SubkeysOf(ms))>>]>>],
       [k |-> sHold,
        v |-> <<[k |-> kW,
                 v |-> <<Bound("holdF", FALSE, <<>>),
                         MapValue(SubkeysOf(ms))>>]>>],
       [k |-> sRelease,
        v |-> <<[k |-> kW,
                 v |-> <<Bound("releaseF", FALSE, <<>>),
                         MapValue(SubkeysOf(ms))>>]>>] >>

PolicyTables == {PolicyTable(ms) : ms \in SUBSET ModifierNames}

InitPolicy ==
    /\ Fatality = 2
    /\ Callbacks = RegAll
    /\ Map \in PolicyTables
    /\ loads = <<>>
    /\ settled = NotSettled
    /\ ev = NoEvent
    /\ calls = <<>>
    /\ fault = "none"
    /\ build \in Builds
    /\ type = "keymap"
    /\ contents = <<>>
    /\ outcome = Pending
    /\ again = Pending
    /\ Data = InitialData
    /\ start = "load"
    /\ newest = NoCallYet
    /\ listeners = Enabled
    /\ LogInit
    /\ CameraInit
    /\ TextureInit

SpecPolicy == InitPolicy /\ [][NextDispatch]_vars

C25_Aux_AssertedAreDeclared ==
    (/\ Delivered
     /\ BindingLive(ev)
     /\ ~MarkedTolerant(BindingOf(ev))
     /\ calls # <<>>)
        => Asserted(ev) \subseteq Declared(BindingOf(ev))

\* A line of the text that has no character but spaces, or has a comment
\* marker somewhere.
AllSpaces(l) == \A i \in 1..Len(l) : l[i] = " "
Droppable(l) == AllSpaces(l) \/ Includes(l, "#") \/ Includes(l, ";")
NotDroppable(l) == ~Droppable(l)

\* The text without its blank and comment lines.
WithoutDropped(text) == JoinLines(SelectSeq(Split(text, "\n"), NotDroppable))

BindingsOf(table) ==
    UNION {{<<table[i].k, table[i].v[j].k, table[i].v[j].v>> :
                j \in 1..Len(table[i].v)} : i \in 1..Len(table)}

(***************************************************************************)
(* C27.  After a keymap load that succeeds the live table holds only the   *)
(* bindings of the file just loaded: a binding of the table that was live  *)
(* before is there, in whatever phase, only if the new file defines it.    *)
(***************************************************************************)
C27_RebuiltWholesale ==
    [][\A i \in 1..Len(loads) :
            (/\ Finishes(i)
             /\ loads[i].pc = "text"
             /\ ParsedFile(loads[i].name).thrown = "none")
                => /\ BindingsOf(Map') =
                        BindingsOf(ParsedFile(loads[i].name).contents)
                   /\ MapKeys(Map') =
                        MapKeys(ParsedFile(loads[i].name).contents)
      ]_vars

\* A hold binding of an earlier table was invoked, and the file loaded
\* since has left the live table without a Hold section.
C27_Witness ==
    /\ settled = "installed"
    /\ Delivered
    /\ PhaseOf(ev) = sHold
    /\ calls # <<>>
    /\ Map # <<>>
    /\ ~MapHas(Map, sHold)

(***************************************************************************)
(* The handlers over tables that bind a callback that throws.              *)
(***************************************************************************)
nT == <<"T">>

\* F and T registered for every phase; the functions of T throw.
RegFaulty ==
    [p \in Phases |->
        IF p = sPress
        THEN <<[k |-> nF, v |-> "pressF"], [k |-> nT, v |-> "pressT"]>>
        ELSE IF p = sHold
        THEN <<[k |-> nF, v |-> "holdF"], [k |-> nT, v |-> "holdT"]>>
        ELSE <<[k |-> nF, v |-> "releaseF"], [k |-> nT, v |-> "releaseT"]>>]

\* Keymaps of one section that binds W and S, S tolerant or not.
FaultTexts ==
    {JoinLines(<<Header(P), Assign(kW, a), Assign(kS, b)>> \o sub) :
        P \in Phases, a \in {nF, nT}, b \in {nF, nT},
        sub \in {<<>>, <<Tab(Assign(sTolerant, sTrue))>>}}

FaultTables ==
    {ParseConfig("keymap", t, RegFaulty, 2).contents : t \in FaultTexts}

InitFault ==
    /\ Fatality = 2
    /\ Callbacks = RegFaulty
    /\ Map \in FaultTables
    /\ loads = <<>>
    /\ settled = NotSettled
    /\ ev = NoEvent
    /\ calls = <<>>
    /\ fault = "none"
    /\ build \in Builds
    /\ type = "keymap"
    /\ contents = <<>>
    /\ outcome = Pending
    /\ again = Pending
    /\ Data = InitialData
    /\ start = "load"
    /\ newest = NoCallYet
    /\ listeners = Enabled
    /\ LogInit
    /\ CameraInit
    /\ TextureInit

SpecFault == InitFault /\ [][NextDispatch]_vars

(***************************************************************************)
(* C28.  When the callback that an event is dispatched to throws, what it  *)
(* throws leaves the handler as it is: the handler does not swallow it,    *)
(* it calls no other callback for the event, and the live table is as it   *)
(* was.                                                                    *)
(***************************************************************************)
C28_FaultPropagates ==
    [][(/\ ev' # NoEvent
        /\ calls' # <<>>
        /\ calls'[1].f \in Throwing)
            => /\ fault' = CallbackFault
               /\ calls' = <<MapGet(MapGet(Map, PhaseOf(ev')), ev'.code)[1]>>
               /\ Map' = Map]_vars

\* A release binding that throws has been invoked by a keyup.
C28_Witness ==
    /\ Delivered
    /\ ev.type = "keyup"
    /\ build = "Commands.js"
    /\ BindingLive(ev)
    /\ ~MarkedTolerant(BindingOf(ev))
    /\ calls = <<BindingOf(ev)[1]>>
    /\ calls[1].f = "releaseT"
    /\ fault = CallbackFault

\* The pieces that the character c separates s into.
RECURSIVE Pieces(_, _)
Pieces(s, c) ==
    IF \E n \in 1..Len(s) : s[n] = c
    THEN <<Before(s, c)>> \o Pieces(After(s, c), c)
    ELSE <<s>>

HasChar(s, c) == \E n \in 1..Len(s) : s[n] = c

\* A value of the form name(a1,...,an), or with no "(" at all.
OfCallForm(v) ==
    HasChar(v, "(") =>
        /\ ~HasChar(Before(v, "("), ")")
        /\ HasChar(After(v, "("), ")")

(***************************************************************************)
(* C29.  A keymap value name(a1,...,an) is decoded to the function that    *)
(* the registry has for the text before the first "(", called with the     *)
(* list that splitting the text between the first "(" and the first ")"    *)
(* at its commas gives; a value with no "(" is decoded to the function     *)
(* registered for the whole value, with no argument list.                  *)
(***************************************************************************)
C29_CallDecoding ==
    KeymapLoaded =>
        LET ls == Lines(contents)
        IN  \A n \in 1..Len(ls) :
                (/\ IsKeyLine(ls[n])
                 /\ ~FailedLookupAt(ls, n)
                 /\ OfCallForm(ValueOf(ls[n])))
                    => LET v == ValueOf(ls[n])
                           registry ==
                               Callbacks[StateAfter(ls, n).section_name]
                           b == MapGet(StateAfter(ls, n).section,
                                       KeyNameOf(ls[n]))[1]
                       IN  IF HasChar(v, "(")
                           THEN /\ b.f = MapGet(registry, Before(v, "("))
                                /\ b.hasArgs
                                /\ b.args =
                                    Pieces(Before(After(v, "("), ")"), ",")
                           ELSE /\ b.f = MapGet(registry, v)
                                /\ ~b.hasArgs

\* A binding with two arguments has been loaded.
C29_Witness ==
    /\ KeymapLoaded
    /\ \E b \in BindingsOf(outcome.contents) :
            /\ b[3][1].hasArgs
            /\ b[3][1].args = <<<<"u">>, <<"d">>>>

\* Line n is a key line that the parse drops, whose callback name is not
\* registered, and the sub-key line n + 1 follows it.
DroppedThenSubkey(ls, n) ==
    /\ n + 1 <= Len(ls)
    /\ FailedLookupAt(ls, n)
    /\ StateAfter(ls, n - 1).section_name \in Phases
    /\ StateAfter(ls, n).thrown = "none"
    /\ IsSubkeyLine(ls[n + 1])
    /\ SubkeyNameOf(ls[n + 1]) = sTolerant

(***************************************************************************)
(* C30.  When a keymap entry is dropped because its callback name is not   *)
(* registered, the sub-key lines after it are dropped with it: such a line *)
(* does not abort the load, and it is attached to no entry that the table  *)
(* keeps, so the parse is after it as it was before it.  The sub-key       *)
(* branch looks the dropped key up in the section, where it is absent or   *)
(* is an earlier binding of the same name, so the statement fails.         *)
(***************************************************************************)
C30_SubkeysDroppedWithEntry ==
    (type = "keymap" /\ Parsed) =>
        LET ls == Lines(contents)
        IN  \A n \in 1..Len(ls) :
                DroppedThenSubkey(ls, n)
                    => StateAfter(ls, n + 1) = StateAfter(ls, n)

\* The part of the statement that holds: the sub-key line of a dropped
\* entry adds no entry and changes no entry of another key.
C30_Aux_OtherKeysUntouched ==
    (type = "keymap" /\ Parsed) =>
        LET ls == Lines(contents)
        IN  \A n \in 1..Len(ls) :
                (DroppedThenSubkey(ls, n)
                    /\ StateAfter(ls, n + 1).thrown = "none")
                    => /\ MapKeys(StateAfter(ls, n + 1).section) =
                            MapKeys(StateAfter(ls, n).section)
                       /\ \A k \in MapKeys(StateAfter(ls, n).section) :
                            k # KeyNameOf(ls[n]) =>
                                MapGet(StateAfter(ls, n + 1).section, k) =
                                    MapGet(StateAfter(ls, n).section, k)

\* The sub-key line of a dropped entry never ends the parse.
C30_Aux_NeverAborts ==
    (type = "keymap" /\ Parsed) =>
        LET ls == Lines(contents)
        IN  \A n \in 1..Len(ls) :
                DroppedThenSubkey(ls, n)
                    => StateAfter(ls, n + 1).thrown = "none"

\* The sub-key line of a dropped entry never changes an entry.
C30_Aux_NeverAttaches ==
    (type = "keymap" /\ Parsed) =>
        LET ls == Lines(contents)
        IN  \A n \in 1..Len(ls) :
                (DroppedThenSubkey(ls, n)
                    /\ StateAfter(ls, n + 1).thrown = "none")
                    => StateAfter(ls, n + 1).section =
                            StateAfter(ls, n).section

\* The entry has a tolerant sub-key with the value v.
TolerantWritten(entry, v) ==
    \E n \in 1..Len(entry[2].m) :
        entry[2].m[n].k = sTolerant /\ entry[2].m[n].v = v

(***************************************************************************)
(* C31.  A binding is tolerant only when its tolerant sub-key is there     *)
(* with a truthy value: a binding written with tolerant=false is matched   *)
(* under the policy that is not tolerant, and an event that asserts a      *)
(* modifier does not invoke it.  The sub-key value is kept as the string   *)
(* of the file, and the string false is truthy, so the statement fails.    *)
(***************************************************************************)
C31_FalseIsNotTolerant ==
    (/\ Delivered
     /\ BindingLive(ev)
     /\ TolerantWritten(BindingOf(ev), sFalse)
     /\ Asserted(ev) # {})
        => (calls = <<>> /\ fault = "none")

\* The same for the tolerant sub-key that is written with no value, which
\* is the empty string.
C31_Aux_EmptyIsNotTolerant ==
    (/\ Delivered
     /\ BindingLive(ev)
     /\ TolerantWritten(BindingOf(ev), <<>>)
     /\ Asserted(ev) # {})
        => (calls = <<>> /\ fault = "none")

(***************************************************************************)
(* C32.  In every table that a keymap parse returns no entry has a sub-key *)
(* of another name than tolerant; so, whatever table is loaded, a binding  *)
(* that is not tolerant is invoked by no event but one that leaves shift,  *)
(* alt, control and meta all unasserted.                                   *)
(***************************************************************************)
C32_OnlyTolerantSubkeys ==
    /\ \A b \in BindingsOf(Map) : Declared(b[3]) \subseteq {sTolerant}
    /\ (/\ Delivered
        /\ BindingLive(ev)
        /\ ~MarkedTolerant(BindingOf(ev))
        /\ calls # <<>>)
            => Asserted(ev) = {}

\* In a table that has a tolerant binding as well, a binding that is not
\* tolerant has been invoked by an event with no modifier.
C32_Witness ==
    /\ Delivered
    /\ BindingLive(ev)
    /\ ~MarkedTolerant(BindingOf(ev))
    /\ calls = <<BindingOf(ev)[1]>>
    /\ Asserted(ev) = {}
    /\ \E b \in BindingsOf(Map) : Declared(b[3]) = {sTolerant}

(***************************************************************************)
(* C33.  When LoadMap calls overlap, the live table, once they have all    *)
(* completed and the call issued last has loaded its file, is the table of *)
(* that file, in whatever order the files were retrieved.  Each call       *)
(* assigns the live table when its own parse ends, so an earlier call      *)
(* whose file arrives later overwrites the table of the last one and the   *)
(* statement fails.                                                        *)
(***************************************************************************)
C33_LastIssuedWins ==
    (loads = <<>> /\ newest.state = "installed")
        => Map = ParsedFile(newest.name).contents

(***************************************************************************)
(* Keymap loads and key events while the registries are written to.  The   *)
(* registries are Maps that any module may set entries of, as the camera   *)
(* module does for MoveCamera and StopCamera.                              *)
(***************************************************************************)
\* Map.prototype.delete.
MapDelete(m, k) ==
    LET Other(x) == x.k # k
    IN  SelectSeq(m, Other)

\* The names written to the press registry and the function they are set
\* to.
EditedNames == {nF, nN}
EditFunction(name) == IF name = nF THEN "otherF" ELSE "pressN"

\* table with every binding of the function old bound to f instead.
Rebound(table, old, f) ==
    [i \in 1..Len(table) |->
        [k |-> table[i].k,
         v |-> [j \in 1..Len(table[i].v) |->
                    [k |-> table[i].v[j].k,
                     v |-> IF table[i].v[j].v[1].f = old
                           THEN <<[table[i].v[j].v[1] EXCEPT !.f = f],
                                  table[i].v[j].v[2]>>
                           ELSE table[i].v[j].v]]]]

\* SetCallback with the live bindings of the function that the name had
\* bound to the new function.
SetCallback_RebindsLive(P, name, f) ==
    /\ IF MapHas(Callbacks[P], name) THEN MapGet(Callbacks[P], name) # f
       ELSE TRUE
    /\ Callbacks' = [Callbacks EXCEPT ![P] = MapSet(Callbacks[P], name, f)]
    /\ Map' = IF MapHas(Callbacks[P], name)
              THEN Rebound(Map, MapGet(Callbacks[P], name), f)
              ELSE Map
    /\ UNCHANGED <<newest, again, Data, start, Fatality, loads, settled, ev,
                   calls, fault, build, type, contents, outcome>>
    /\ UNCHANGED <<listeners, logVars, cameraVars, textureVars>>

\* A registry's set(name, f): the name is registered, or registered anew.
SetCallback(P, name, f) ==
    /\ IF MapHas(Callbacks[P], name) THEN MapGet(Callbacks[P], name) # f
       ELSE TRUE
    /\ Callbacks' = [Callbacks EXCEPT ![P] = MapSet(Callbacks[P], name, f)]
    /\ UNCHANGED <<newest, again, Data, start, Fatality, Map, loads, settled,
                   ev, calls, fault, build, type, contents, outcome>>
    /\ UNCHANGED <<listeners, logVars, cameraVars, textureVars>>

\* A registry's delete(name).
DeleteCallback(P, name) ==
    /\ MapHas(Callbacks[P], name)
    /\ Callbacks' = [Callbacks EXCEPT ![P] = MapDelete(Callbacks[P], name)]
    /\ UNCHANGED <<newest, again, Data, start, Fatality, Map, loads, settled,
                   ev, calls, fault, build, type, contents, outcome>>
    /\ UNCHANGED <<listeners, logVars, cameraVars, textureVars>>

\* The events delivered meanwhile: the presses of W and S, plain and
\* repeated, with no modifier.
RegistryEvents ==
    {e \in Events : e.type = "keydown" /\ Asserted(e) = {}}

InitRegistry ==
    /\ Fatality = 2
    /\ Callbacks = RegAll
    /\ Map = <<>>
    /\ loads = <<>>
    /\ settled = NotSettled
    /\ ev = NoEvent
    /\ calls = <<>>
    /\ fault = "none"
    /\ build \in Builds
    /\ type = "keymap"
    /\ contents = <<>>
    /\ outcome = Pending
    /\ again = Pending
    /\ Data = InitialData
    /\ start = "load"
    /\ newest = NoCallYet
    /\ listeners = Enabled
    /\ LogInit
    /\ CameraInit
    /\ TextureInit

NextRegistry ==
    \/ \E name \in {"tabbed"} : LoadMap(name)
    \/ \E i \in 1..MaxLoads, status \in {200, 404} : FetchSettles(i, status)
    \/ \E i \in 1..MaxLoads : TextSettles(i)
    \/ \E e \in RegistryEvents : KeyDown(e)
    \/ \E name \in EditedNames : SetCallback(sPress, name, EditFunction(name))
    \/ \E name \in EditedNames : DeleteCallback(sPress, name)

SpecRegistry == InitRegistry /\ [][NextRegistry]_vars

(***************************************************************************)
(* C34.  A binding captures its function and its arguments when the keymap *)
(* is loaded: registering, replacing and removing names in the registries  *)
(* leaves the live table as it is, so every event invokes the function and *)
(* the arguments that the load bound, until a load that succeeds assigns   *)
(* the table anew; and no step of a load or of a dispatch writes to the    *)
(* registries.                                                             *)
(***************************************************************************)
C34_CapturedAtLoad ==
    [][/\ Callbacks' # Callbacks =>
            /\ Map' = Map
            /\ loads' = loads
            /\ <<ev', calls', fault'>> = <<ev, calls, fault>>
       /\ Map' # Map =>
            \E i \in 1..Len(loads) :
                /\ Finishes(i)
                /\ loads[i].pc = "text"
                /\ ParsedFile(loads[i].name).thrown = "none"
       /\ <<ev', calls', fault'>> # <<ev, calls, fault>> =>
            \A n \in 1..Len(calls') :
                /\ BindingLive(ev')
                /\ calls'[n] = BindingOf(ev')[1]
      ]_vars

\* An event has invoked pressF with the arguments of the file, and the
\* press registry has another function, or none, under the name F.
C34_Witness ==
    /\ Delivered
    /\ calls # <<>>
    /\ calls[1].f = "pressF"
    /\ calls[1].args = <<<<"u">>>>
    /\ Map # <<>>
    /\ \/ ~MapHas(Callbacks[sPress], nF)
       \/ MapGet(Callbacks[sPress], nF) = "otherF"

(***************************************************************************)
(* The logging functions of Selenium_Utilities on their own.  An entry of  *)
(* the buffer is taken for its message; its timestamp and its stack trace  *)
(* are left out.                                                           *)
(***************************************************************************)
\* Most calls of the logging functions.
MaxEmitted == 52

\* Push with the overflow left in the buffer.
Push_NoShift(buffer, string) == Append(buffer, [message |-> string])

\* What every logging function does to the buffer: the oldest entry is
\* shifted out of a buffer of 50 or more, and the new one is pushed.
Push(buffer, string) ==
    Append(IF Len(buffer) >= 50 THEN Tail(buffer) ELSE buffer,
           [message |-> string])

\* A logging function is called with string, and throws it or returns.
Logging(severity, string, throws) ==
    /\ Len(emitted) < MaxEmitted
    /\ LogBuffer' = Push(LogBuffer, string)
    /\ emitted' = Append(emitted, string)
    /\ last' = [severity |-> severity, message |-> string, thrown |-> throws]
    /\ UNCHANGED <<Fatality, keyboardVars, cameraVars, textureVars>>

Log(string) == Logging("Log", string, FALSE)
Success(string) == Logging("Success", string, FALSE)
Warning(string) == Logging("Warning", string, WarningThrows(Fatality))
Error(string) == Logging("Error", string, ErrorThrows(Fatality))
Panic(string) == Logging("Panic", string, TRUE)

\* The message of the next call: every call is given a message of its own,
\* which the number of the call stands for.
NextMessages == {Len(emitted) + 1}

InitLog ==
    /\ Fatality \in 0..2
    /\ Callbacks = RegAll
    /\ Map = <<>>
    /\ loads = <<>>
    /\ settled = NotSettled
    /\ ev = NoEvent
    /\ calls = <<>>
    /\ fault = "none"
    /\ build = "Keyboard.js"
    /\ type = "keymap"
    /\ contents = <<>>
    /\ outcome = Pending
    /\ again = Pending
    /\ Data = InitialData
    /\ start = "load"
    /\ newest = NoCallYet
    /\ listeners = <<>>
    /\ LogInit
    /\ CameraInit
    /\ TextureInit

NextLog ==
    \/ \E string \in NextMessages : Log(string)
    \/ \E string \in NextMessages : Success(string)
    \/ \E string \in NextMessages : Warning(string)
    \/ \E string \in NextMessages : Error(string)
    \/ \E string \in NextMessages : Panic(string)

SpecLog == InitLog /\ [][NextLog]_vars

\* The last n elements of the sequence s.
LastOf(s, n) == SubSeq(s, Len(s) - n + 1, Len(s))
Min(a, b) == IF a < b THEN a ELSE b
MessagesOf(buffer) == [i \in 1..Len(buffer) |-> buffer[i].message]

(***************************************************************************)
(* C35.  After any sequence of Log, Success, Warning, Error and Panic      *)
(* calls the log buffer has at most 50 entries, and they are the last      *)
(* min(n, 50) of the n messages emitted, in the order of their emission;   *)
(* a call that throws has put its message there before it throws.          *)
(***************************************************************************)
C35_LastFiftyMessages ==
    /\ Len(LogBuffer) <= 50
    /\ MessagesOf(LogBuffer) = LastOf(emitted, Min(Len(emitted), 50))
    /\ last.thrown =>
            /\ LogBuffer # <<>>
            /\ LogBuffer[Len(LogBuffer)].message = last.message

\* More than 50 messages have been emitted, the last one by a call that
\* threw it.
C35_Witness ==
    /\ Len(emitted) > 50
    /\ Len(LogBuffer) = 50
    /\ last.thrown
    /\ LogBuffer[50].message = Len(emitted)
    /\ LogBuffer[1].message = Len(emitted) - 49

(***************************************************************************)
(* C36.  Severity and fatality level decide whether a logging call         *)
(* throws: Panic always does, Error does exactly at the fatality levels    *)
(* All (0) and Errors (1), Warning exactly at All (0), and Log and Success *)
(* never do; so what throws at a level throws at every level below it.     *)
(***************************************************************************)
C36_FatalityBySeverity ==
    /\ last.severity = "Panic" => last.thrown
    /\ last.severity = "Error" => (last.thrown <=> Fatality \in {0, 1})
    /\ last.severity = "Warning" => (last.thrown <=> Fatality = 0)
    /\ last.severity \in {"Log", "Success"} => ~last.thrown

\* A warning has returned at the level Errors, where an error throws.
C36_Witness ==
    /\ Fatality = 1
    /\ last.severity = "Warning"
    /\ ~last.thrown
    /\ Len(emitted) > 1

(***************************************************************************)
(* The camera callbacks of Input/Camera.js on their own.                   *)
(***************************************************************************)
\* Most warnings the camera callbacks are made to log.
MaxWarnings == 2

\* The argument a binding calls its function with: undefined, or the array
\* of the strings written between the parentheses.
CameraArgs ==
    {Null} \cup {ListValue(<<d>>) : d \in Directions \cup {"x", ""}}

\* The test the callbacks begin with, and the default branch of their
\* switch.
Malformed(args) ==
    \/ args = Null
    \/ args.l = <<>>
    \/ args.l[1] \notin Directions

\* setInterval: the identifier of the interval it sets, one that no
\* interval that is set has.
NewTimer ==
    CHOOSE n \in 1..(Cardinality(timers) + 1) :
        /\ \A t \in timers : t.id # n
        /\ \A m \in 1..(n - 1) : \E t \in timers : t.id = m

\* The warning both callbacks log for malformed arguments: Warning without
\* its bound on the number of calls.
CameraWarning(string) ==
    /\ Len(emitted) < MaxWarnings
    /\ LogBuffer' = Push(LogBuffer, string)
    /\ emitted' = Append(emitted, string)
    /\ last' = [severity |-> "Warning", message |-> string,
                thrown |-> WarningThrows(Fatality)]
    /\ UNCHANGED <<Fatality, keyboardVars, cameraVars, textureVars>>

\* MoveCamera with the test for a movement under way left out.
MoveCamera_StartsAnyway(args) ==
    IF Malformed(args)
    THEN CameraWarning("MoveCamera provided malformed arguments.")
    ELSE /\ Cardinality(timers) < 5
         /\ intervals' = [intervals EXCEPT ![args.l[1]] = IntValue(NewTimer)]
         /\ timers' = timers \cup {[id |-> NewTimer, dir |-> args.l[1]]}
         /\ UNCHANGED <<Fatality, keyboardVars, logVars, textureVars>>

\* The press callback MoveCamera.
MoveCamera(args) ==
    IF Malformed(args)
    THEN CameraWarning("MoveCamera provided malformed arguments.")
    ELSE IF intervals[args.l[1]] # Null THEN UNCHANGED vars
    ELSE /\ intervals' = [intervals EXCEPT ![args.l[1]] = IntValue(NewTimer)]
         /\ timers' = timers \cup {[id |-> NewTimer, dir |-> args.l[1]]}
         /\ UNCHANGED <<Fatality, keyboardVars, logVars, textureVars>>

\* clearInterval: an identifier that is null or that no interval has
\* clears nothing.
ClearInterval(handle) ==
    {t \in timers : handle = Null \/ t.id # handle.n}

\* The release callback StopCamera.
StopCamera(args) ==
    IF Malformed(args)
    THEN CameraWarning("StopCamera provided malformed arguments.")
    ELSE /\ timers' = ClearInterval(intervals[args.l[1]])
         /\ intervals' = [intervals EXCEPT ![args.l[1]] = Null]
         /\ UNCHANGED <<Fatality, keyboardVars, logVars, textureVars>>

InitCamera ==
    /\ Fatality \in 0..2
    /\ Callbacks = RegCamera
    /\ Map = <<>>
    /\ loads = <<>>
    /\ settled = NotSettled
    /\ ev = NoEvent
    /\ calls = <<>>
    /\ fault = "none"
    /\ build = "Keyboard.js"
    /\ type = "keymap"
    /\ contents = <<>>
    /\ outcome = Pending
    /\ again = Pending
    /\ Data = InitialData
    /\ start = "load"
    /\ newest = NoCallYet
    /\ listeners = Enabled
    /\ LogInit
    /\ CameraInit
    /\ TextureInit

NextCamera ==
    \/ \E args \in CameraArgs : MoveCamera(args)
    \/ \E args \in CameraArgs : StopCamera(args)

SpecCamera == InitCamera /\ [][NextCamera]_vars

\* The intervals of the host that move the camera in the direction d.
MovingIn(ts, d) == {t \in ts : t.dir = d}
Toward(d) == ListValue(<<d>>)

(***************************************************************************)
(* C37.  After any sequence of MoveCamera and StopCamera calls each of the *)
(* four directions has at most one movement interval set, the one its      *)
(* variable holds: MoveCamera(d) starts nothing while d is moving,         *)
(* StopCamera(d) leaves d with no interval, and a call whose direction is  *)
(* missing or unknown changes no interval.                                 *)
(***************************************************************************)
C37_OneIntervalEach ==
    [][/\ \A d \in Directions :
            /\ Cardinality(MovingIn(timers', d)) <= 1
            /\ \A t \in MovingIn(timers', d) : intervals'[d] = IntValue(t.id)
            /\ intervals'[d] # Null => MovingIn(timers', d) # {}
       /\ \A d \in Directions :
            /\ (MoveCamera(Toward(d)) /\ intervals[d] # Null)
                    => <<intervals', timers'>> = <<intervals, timers>>
            /\ StopCamera(Toward(d))
                    => (MovingIn(timers', d) = {} /\ intervals'[d] = Null)
       /\ \A args \in {a \in CameraArgs : Malformed(a)} :
            (MoveCamera(args) \/ StopCamera(args))
                => <<intervals', timers'>> = <<intervals, timers>>
      ]_vars

\* All four directions are moving, each on one interval, after a movement
\* was stopped and started again and a malformed call was warned about.
C37_Witness ==
    /\ \A d \in Directions : Cardinality(MovingIn(timers, d)) = 1
    /\ intervals["up"] = IntValue(4)
    /\ emitted # <<>>

(***************************************************************************)
(* The texture table of Assets/Textures.js.                                *)
(***************************************************************************)
\* Most textures the host is asked to create.
MaxTextures == 4

\* The image files asked for.
TextureNames == {"a.png", "b.png"}

\* GL.createTexture: a texture object no earlier call returned.
CreateTexture == Len(created) + 1

\* Load(name) up to its await: a name the table has returns true at once,
\* any other has a texture created and set up, and the image asked for.
TextureLoad(name) ==
    /\ Len(created) < MaxTextures
    /\ IF MapHas(LoadedTextures, name)
       THEN UNCHANGED vars
       ELSE /\ created' =
                    Append(created, [name |-> name, texture |-> CreateTexture])
            /\ texLoads' =
                    Append(texLoads, [name |-> name, texture |-> CreateTexture])
            /\ UNCHANGED <<LoadedTextures, stored>>
            /\ UNCHANGED <<Fatality, keyboardVars, logVars, cameraVars>>

\* Load(name) after its await: LoadImage resolves with the image once it
\* has loaded and with nothing else, and the texture of the call is put in
\* the table under the name.
ImageLoaded(i) ==
    /\ i \in 1..Len(texLoads)
    /\ LoadedTextures' =
            MapSet(LoadedTextures, texLoads[i].name, texLoads[i].texture)
    /\ stored' = stored \cup {texLoads[i]}
    /\ texLoads' = Remove(texLoads, i)
    /\ UNCHANGED created
    /\ UNCHANGED <<Fatality, keyboardVars, logVars, cameraVars>>

InitTextures ==
    /\ Fatality \in 0..2
    /\ Callbacks = RegCamera
    /\ Map = <<>>
    /\ loads = <<>>
    /\ settled = NotSettled
    /\ ev = NoEvent
    /\ calls = <<>>
    /\ fault = "none"
    /\ build = "Keyboard.js"
    /\ type = "keymap"
    /\ contents = <<>>
    /\ outcome = Pending
    /\ again = Pending
    /\ Data = InitialData
    /\ start = "load"
    /\ newest = NoCallYet
    /\ listeners = Enabled
    /\ LogInit
    /\ CameraInit
    /\ TextureInit

NextTextures ==
    \/ \E name \in TextureNames : TextureLoad(name)
    \/ \E i \in 1..MaxTextures : ImageLoaded(i)

SpecTextures == InitTextures /\ [][NextTextures]_vars

\* The textures created for a name, and those put in the table under it.
CreatedFor(name) ==
    {created[i].texture : i \in {j \in 1..Len(created) : created[j].name = name}}
StoredFor(name) == {s.texture : s \in {t \in stored : t.name = name}}

(***************************************************************************)
(* C38.  However many times Load is called for one name, calls that        *)
(* overlap while the image is retrieved included, at most one texture      *)
(* object is created for the name and at most one is put in the table.     *)
(***************************************************************************)
C38_OneTexturePerName ==
    \A name \in TextureNames :
        /\ Cardinality(CreatedFor(name)) <= 1
        /\ Cardinality(StoredFor(name)) <= 1

\* Calls that do not overlap do create one texture only: the second call
\* finds the name in the table.
C38_Aux_OneWhenNotOverlapping ==
    [][\A name \in TextureNames :
        (TextureLoad(name) /\ MapHas(LoadedTextures, name))
            => created' = created]_vars

(***************************************************************************)
(* Enable and Disable, and the window delivering key events to the         *)
(* listeners it has.                                                       *)
(***************************************************************************)
KeyDownListener == [type |-> "keydown", callback |-> "HandleDown"]
KeyUpListener == [type |-> "keyup", callback |-> "HandleRelease"]

\* addEventListener with a listener the list already has added again.
AddEventListener_KeepsDuplicates(ls, listener) == Append(ls, listener)

\* window.addEventListener: a listener of the same type and callback that
\* the list already has is discarded.
AddEventListener(ls, listener) ==
    IF \E i \in 1..Len(ls) : ls[i] = listener THEN ls
    ELSE Append(ls, listener)

\* window.removeEventListener.
RemoveEventListener(ls, listener) ==
    LET Others(l) == l # listener IN SelectSeq(ls, Others)

\* Selenium_Input_Keyboard.Enable.
Enable ==
    /\ listeners' = AddEventListener(
                        AddEventListener(listeners, KeyDownListener),
                        KeyUpListener)
    /\ UNCHANGED <<Callbacks, Map, loads, settled, ev, calls, fault, build,
                   type, contents, outcome, again, Data, start, newest>>
    /\ UNCHANGED <<Fatality, logVars, cameraVars, textureVars>>

\* Selenium_Input_Keyboard.Disable.
Disable ==
    /\ listeners' = RemoveEventListener(
                        RemoveEventListener(listeners, KeyDownListener),
                        KeyUpListener)
    /\ UNCHANGED <<Callbacks, Map, loads, settled, ev, calls, fault, build,
                   type, contents, outcome, again, Data, start, newest>>
    /\ UNCHANGED <<Fatality, logVars, cameraVars, textureVars>>

\* What one handler does with the event e.
Handled(e) ==
    IF e.type = "keydown"
    THEN IF build = "Keyboard.js" THEN HandleDown(e, Map)
         ELSE HandleDownDocumented(e, Map)
    ELSE IF build = "Keyboard.js" THEN HandleRelease(e, Map)
         ELSE HandleReleaseDocumented(e, Map)

\* The window runs the listeners of the type of e in the order they were
\* added; an exception of one listener is reported and the next one runs.
RECURSIVE RunListeners(_, _)
RunListeners(ls, e) ==
    IF ls = <<>> THEN NoCall
    ELSE IF ls[1].type # e.type THEN RunListeners(Tail(ls), e)
    ELSE LET rest == RunListeners(Tail(ls), e)
         IN  [calls |-> Handled(e).calls \o rest.calls,
              fault |-> IF Handled(e).fault # "none" THEN Handled(e).fault
                        ELSE rest.fault]

\* A key event reaches the window.
Deliver(e) ==
    /\ e.type = "keyup" => ~e.repeat
    /\ \E res \in {RunListeners(listeners, e)} :
            /\ calls' = res.calls
            /\ fault' = res.fault
    /\ ev' = e
    /\ UNCHANGED <<newest, again, Data, start, Fatality, Callbacks, Map, loads,
                   settled, build, type, contents, outcome>>
    /\ UNCHANGED <<listeners, logVars, cameraVars, textureVars>>

\* The events delivered: presses, repeats and releases of both keys, with
\* and without the shift key.
ListenEvents ==
    {e \in Events : ~e.altKey /\ ~e.ctrlKey /\ ~e.metaKey}

ListenTables == DispatchTables

InitListen ==
    /\ Fatality = 2
    /\ Callbacks = RegAll
    /\ Map \in ListenTables
    /\ loads = <<>>
    /\ settled = NotSettled
    /\ ev = NoEvent
    /\ calls = <<>>
    /\ fault = "none"
    /\ build \in Builds
    /\ type = "keymap"
    /\ contents = <<>>
    /\ outcome = Pending
    /\ again = Pending
    /\ Data = InitialData
    /\ start = "load"
    /\ newest = NoCallYet
    /\ listeners = <<>>
    /\ LogInit
    /\ CameraInit
    /\ TextureInit

NextListen ==
    \/ Enable
    \/ Disable
    \/ \E e \in ListenEvents : Deliver(e)

SpecListen == InitListen /\ [][NextListen]_vars

\* The listeners of a type in a list.
ListenersOf(ls, ty) == {i \in 1..Len(ls) : ls[i].type = ty}

(***************************************************************************)
(* C39.  For any sequence of Enable and Disable calls: after a Disable the *)
(* window has no listener, so that until the next Enable no key event      *)
(* invokes a callback; after an Enable, whatever the number of Enable      *)
(* calls before it, the window has one listener for each type, so that     *)
(* each key event is handled exactly once.                                 *)
(***************************************************************************)
C39_EnableDisable ==
    [][/\ Disable => listeners' = <<>>
       /\ Enable =>
            /\ Cardinality(ListenersOf(listeners', "keydown")) = 1
            /\ Cardinality(ListenersOf(listeners', "keyup")) = 1
       /\ \A e \in ListenEvents :
            Deliver(e) =>
                /\ listeners = <<>> => calls' = <<>>
                /\ listeners # <<>> =>
                        /\ calls' = Handled(e).calls
                        /\ fault' = Handled(e).fault
      ]_vars

\* Whatever the calls made, the window has both listeners or none.
C39_Aux_AllOrNothing == listeners \in {<<>>, Enabled}

\* With input enabled, an event whose key is bound has had its function
\* called once.
C39_Witness ==
    /\ listeners = Enabled
    /\ Delivered
    /\ BindingLive(ev)
    /\ Len(calls) = 1

\* With input disabled, an event whose key is bound has called nothing.
C39_Aux_Witness_Disabled ==
    /\ listeners = <<>>
    /\ Delivered
    /\ BindingLive(ev)
    /\ calls = <<>>

====
